---- MODULE Spec2Model ----
(***************************************************************************)
(* Variant Assignment & Persistence Engine of the Warden landing page      *)
(* (src/src/ab-testing.utils.ts over src/src/ab-testing.config.ts).        *)
(*                                                                         *)
(* Strings of the program are TLA+ strings; where the code reads the       *)
(* characters of a string (hashStringToNumber) the string is looked up in  *)
(* CharCodes.  JavaScript null/undefined is the string NONE where a string *)
(* is expected, NullVariant where a variant is expected and NullTest where *)
(* a test is expected.  A variant is [id, weight]: the name and the opaque *)
(* config payload are never read by the engine.                            *)
(***************************************************************************)
EXTENDS Integers, Sequences, FiniteSets, TLC

\* ------------------------------------------------------------------ bounds

\* Math.random() is drawn from the dyadic grid n / 2^RandBits, n in 0 .. 2^RandBits - 1
\* (every such value and its product with 100 is an exact double).
RandBits == 3

\* The stores are changed from outside the engine up to this many times.
MaxExternal == 1

\* Assignments of one test (store writes and 'assigned' events of getVariant)
\* are counted up to this many.
MaxAssigns == 2

\* The clock shows a day of 0 .. MaxTime.
MaxTime == 3

RECURSIVE Pow2(_)
Pow2(n) == IF n = 0 THEN 1 ELSE 2 * Pow2(n - 1)

RandDen == Pow2(RandBits)

\* ------------------------------------------------------------ null values

NONE == "null"
UNDEF == "undefined"
NullVariant == [id |-> NONE, weight |-> 0]
NullTest == [testId |-> NONE, enabled |-> FALSE, defaultVariant |-> NONE, variants |-> <<>>]

\* -------------------------------------------------- ab-testing.config.ts

VARIANT_ASSIGNED == "ab_variant_assigned"
VARIANT_VIEWED == "ab_variant_viewed"
VARIANT_CONVERSION == "ab_variant_conversion"
VARIANT_INTERACTION == "ab_variant_interaction"

HeroId == "hero-messaging-test"
MissionId == "mission-approach-test"
CtaId == "cta-messaging-test"
UnknownId == "unknown-test"

V(id, w) == [id |-> id, weight |-> w]

\* heroABTest with its weights raised past 100 in all.
heroABTestOverweight ==
  [testId |-> HeroId, enabled |-> TRUE, defaultVariant |-> "original",
   variants |-> <<V("original", 50), V("protective-focus", 60)>>]

heroABTest ==
  [testId |-> HeroId, enabled |-> TRUE, defaultVariant |-> "original",
   variants |-> <<V("original", 50), V("protective-focus", 50)>>]

missionABTest ==
  [testId |-> MissionId, enabled |-> TRUE, defaultVariant |-> "current",
   variants |-> <<V("current", 60), V("aspirational", 40)>>]

ctaABTest ==
  [testId |-> CtaId, enabled |-> TRUE, defaultVariant |-> "mission-focus",
   variants |-> <<V("mission-focus", 33), V("tech-focus", 33), V("community-focus", 34)>>]

\* Object.values(abTestRegistry), in declaration order.
abTestRegistry == <<heroABTest, missionABTest, ctaABTest>>

\* Registries an author can write under the ABTest interface and the guides:
\* weights that sum to less than 100, a weight-0 variant (heroVariant3), a
\* disabled test, a default that is not the first weighted variant, a default
\* that names no variant, and a test whose weights are all 0.
heroWithVariant3 ==
  [testId |-> HeroId, enabled |-> TRUE, defaultVariant |-> "original",
   variants |-> <<V("original", 50), V("protective-focus", 50), V("safety-first", 0)>>]

missionDisabled ==
  [testId |-> MissionId, enabled |-> FALSE, defaultVariant |-> "current",
   variants |-> <<V("current", 60), V("aspirational", 40)>>]

ctaShortfall ==
  [testId |-> CtaId, enabled |-> TRUE, defaultVariant |-> "mission-focus",
   variants |-> <<V("mission-focus", 60), V("tech-focus", 20)>>]

heroDefaultUnweighted ==
  [testId |-> HeroId, enabled |-> TRUE, defaultVariant |-> "original",
   variants |-> <<V("original", 0), V("protective-focus", 40), V("safety-first", 30)>>]

missionAllZero ==
  [testId |-> MissionId, enabled |-> TRUE, defaultVariant |-> "aspirational",
   variants |-> <<V("current", 0), V("aspirational", 0)>>]

ctaDefaultMissing ==
  [testId |-> CtaId, enabled |-> TRUE, defaultVariant |-> "retired",
   variants |-> <<V("mission-focus", 50), V("tech-focus", 20)>>]

Registries ==
  { abTestRegistry,
    <<heroWithVariant3, missionDisabled, ctaShortfall>>,
    <<heroDefaultUnweighted, missionAllZero, ctaDefaultMissing>> }

TestIds == {HeroId, MissionId, CtaId}
AllTestIds == TestIds \cup {UnknownId}

\* ------------------------------------------------------------ characters

\* str.charCodeAt(i) for the strings the model draws.
CharCodes(str) ==
  CASE str = HeroId -> <<104, 101, 114, 111, 45, 109, 101, 115, 115, 97, 103, 105, 110, 103, 45, 116, 101, 115, 116>>
    [] str = MissionId -> <<109, 105, 115, 115, 105, 111, 110, 45, 97, 112, 112, 114, 111, 97, 99, 104, 45, 116, 101, 115, 116>>
    [] str = CtaId -> <<99, 116, 97, 45, 109, 101, 115, 115, 97, 103, 105, 110, 103, 45, 116, 101, 115, 116>>
    [] str = UnknownId -> <<117, 110, 107, 110, 111, 119, 110, 45, 116, 101, 115, 116>>
    [] str = "u7" -> <<117, 55>>
    [] str = "u2" -> <<117, 50>>
    [] str = "alice" -> <<97, 108, 105, 99, 101>>
    [] str = "lafqpnl" -> <<108, 97, 102, 113, 112, 110, 108>>
    [] str = "1jtmnnh" -> <<49, 106, 116, 109, 110, 110, 104>>
    [] str = "gya11un" -> <<103, 121, 97, 49, 49, 117, 110>>
    [] str = "bob" -> <<98, 111, 98>>
    [] str = "carol" -> <<99, 97, 114, 111, 108>>
    [] str = "dave" -> <<100, 97, 118, 101>>
    [] str = "eve" -> <<101, 118, 101>>
    [] str = "guest" -> <<103, 117, 101, 115, 116>>
    [] str = "v1" -> <<118, 49>>
    [] str = "" -> <<>>

\* Visitor ids handed to getVariant: none (as falsy as the empty string) and three ids.
UserIds == {UNDEF, "u7", "u2", "alice"}

\* ------------------------------------------------------ registry look-ups

RECURSIVE FindTest(_, _, _)
FindTest(reg, testId, i) ==
  IF i > Len(reg) THEN NullTest
  ELSE IF reg[i].testId = testId THEN reg[i]
  ELSE FindTest(reg, testId, i + 1)

getTestByIdFromRegistry(reg, testId) == FindTest(reg, testId, 1)

RECURSIVE FindVariant(_, _, _)
FindVariant(vs, variantId, i) ==
  IF i > Len(vs) THEN NullVariant
  ELSE IF vs[i].id = variantId THEN vs[i]
  ELSE FindVariant(vs, variantId, i + 1)

getVariantById(test, variantId) == FindVariant(test.variants, variantId, 1)

\* A getDefaultVariant that takes the first declared variant for the default.
getDefaultVariantFirst(test) ==
  IF test = NullTest THEN NullVariant
  ELSE test.variants[1]

getDefaultVariant(test) ==
  IF test = NullTest THEN NullVariant
  ELSE getVariantById(test, test.defaultVariant)

isValidVariant(test, variantId) ==
  \E i \in 1..Len(test.variants) : test.variants[i].id = variantId

\* ------------------------------------------------------- weighted selection

\* A 32-bit integer is kept as two 16-bit halves, [hi, lo], of its two's
\* complement: the products of the hash do not fit the checker's integers.
\* One round of the loop: hash = ((hash << 5) - hash) + char; hash = hash & hash,
\* which is 31 * hash + char reduced to 32 bits.
HashStep(h, char) ==
  LET low == 31 * h.lo + char
      high == 31 * h.hi + (low \div 65536)
  IN [hi |-> high % 65536, lo |-> low % 65536]

RECURSIVE HashLoop(_, _, _)
HashLoop(codes, i, h) ==
  IF i > Len(codes) THEN h
  ELSE HashLoop(codes, i + 1, HashStep(h, codes[i]))

\* Math.abs of the signed value of [hi, lo], as halves again (2^31 for -2^31).
AbsInt32(h) ==
  IF h.hi < 32768 THEN h
  ELSE IF h.lo = 0 THEN [hi |-> 65536 - h.hi, lo |-> 0]
  ELSE [hi |-> 65535 - h.hi, lo |-> 65536 - h.lo]

\* hashStringToNumber: the scalar |hash| / 2^31, kept as its numerator's halves.
hashStringToNumber(codes) ==
  LET a == AbsInt32(HashLoop(codes, 1, [hi |-> 0, lo |-> 0]))
  IN [src |-> "hash", hi |-> a.hi, lo |-> a.lo]

\* Math.random(): n / RandDen.
MathRandom(n) == [src |-> "random", n |-> n]

\* A comparison that only exceeds: randomPercent < cumulativeWeight.
PercentLess(random, cumulativeWeight) ==
  IF random.src = "random"
  THEN random.n * 100 < cumulativeWeight * RandDen
  ELSE random.hi * 100 + ((random.lo * 100) \div 65536) < cumulativeWeight * 32768

\* randomPercent <= cumulativeWeight, exactly: random * 100 is an exact double
\* for both sources, and so is the integer cumulativeWeight.
PercentLeq(random, cumulativeWeight) ==
  IF random.src = "random"
  THEN random.n * 100 <= cumulativeWeight * RandDen
  ELSE LET q == random.hi * 100 + ((random.lo * 100) \div 65536)
           r == (random.lo * 100) % 65536
           k == cumulativeWeight * 32768
       IN q < k \/ (q = k /\ r = 0)

RECURSIVE FilterWeighted(_, _)
FilterWeighted(vs, i) ==
  IF i > Len(vs) THEN <<>>
  ELSE IF vs[i].weight > 0 THEN <<vs[i]>> \o FilterWeighted(vs, i + 1)
  ELSE FilterWeighted(vs, i + 1)

\* A walk whose fallback is the last weighted variant.
RECURSIVE WalkWeightsLast(_, _, _, _)
WalkWeightsLast(enabledVariants, random, i, cumulativeWeight) ==
  IF i > Len(enabledVariants) THEN enabledVariants[Len(enabledVariants)]
  ELSE IF PercentLeq(random, cumulativeWeight + enabledVariants[i].weight)
       THEN enabledVariants[i]
  ELSE WalkWeightsLast(enabledVariants, random, i + 1,
                       cumulativeWeight + enabledVariants[i].weight)

\* A walk that sets the scalar against each variant's own weight.
RECURSIVE WalkWeightsReset(_, _, _, _)
WalkWeightsReset(enabledVariants, random, i, cumulativeWeight) ==
  IF i > Len(enabledVariants) THEN enabledVariants[1]
  ELSE IF PercentLeq(random, enabledVariants[i].weight)
       THEN enabledVariants[i]
  ELSE WalkWeightsReset(enabledVariants, random, i + 1, cumulativeWeight)

RECURSIVE WalkWeights(_, _, _, _)
WalkWeights(enabledVariants, random, i, cumulativeWeight) ==
  IF i > Len(enabledVariants) THEN enabledVariants[1]
  ELSE IF PercentLeq(random, cumulativeWeight + enabledVariants[i].weight)
       THEN enabledVariants[i]
  ELSE WalkWeights(enabledVariants, random, i + 1,
                   cumulativeWeight + enabledVariants[i].weight)

\* A scalar that is drawn afresh even when a userId is given.
SelectionScalarDraw(test, userId, n) == MathRandom(n)

\* The scalar of a resolution: userId ? hashStringToNumber(userId + testId) : Math.random()
SelectionScalar(test, userId, n) ==
  IF userId \in {UNDEF, ""} THEN MathRandom(n)
  ELSE hashStringToNumber(CharCodes(userId) \o CharCodes(test.testId))

SelectByWeight(test, random) ==
  LET enabledVariants == FilterWeighted(test.variants, 1)
  IN IF Len(enabledVariants) = 0 THEN getDefaultVariant(test)
     ELSE WalkWeights(enabledVariants, random, 1, 0)

assignVariantByWeight(test, userId, n) ==
  SelectByWeight(test, SelectionScalar(test, userId, n))

\* ------------------------------------------------------------ storage layer

\* document.cookie holds at most one entry under abTestConfig.cookieName.  Its
\* payload is absent, the JSON text of an object (kept as the object itself: a
\* map from testId to variantId, NONE for a key it lacks) or text JSON.parse
\* rejects.
NoEntries == [t \in AllTestIds |-> NONE]
NoCookie == [kind |-> "absent", map |-> NoEntries]
JsonCookie(map) == [kind |-> "json", map |-> map]
MalformedCookie == [kind |-> "malformed", map |-> NoEntries]

\* Ids that hold a ';': setCookie writes name=value;expires=...;path=/, so the
\* browser keeps the value up to its first ';'.
SemicolonIds == {"b;c"}

\* JSON.parse(cookieValue): the object, or none when the text does not parse.
ParseCookie(cookie) == IF cookie.kind = "json" THEN cookie.map ELSE NoEntries

\* setCookie(name, JSON.stringify(variants), days), as getCookie reads it back.
setCookie(map) ==
  IF \E t \in DOMAIN map : map[t] \in SemicolonIds
  THEN MalformedCookie
  ELSE JsonCookie(map)

\* The environment: env.hasWindow is typeof window !== 'undefined'; env.ls is
\* "ok", "full" (setItem throws) or "denied" (every access throws); env.sink is
\* window.va: "absent", "ok" or "throws".
\* A store is st = [ls, cookie]: ls maps a testId to the item under ab_<testId>.

\* A getStoredVariant that never finds an entry.
getStoredVariantMiss(env, st, testId) == [value |-> NONE, diag |-> <<>>]

\* getStoredVariant: [value, diag].
getStoredVariant(env, st, testId) ==
  IF ~env.hasWindow THEN [value |-> NONE, diag |-> <<>>]
  ELSE IF env.ls = "denied" THEN [value |-> NONE, diag |-> <<"warn:get">>]
  ELSE IF st.ls[testId] \notin {NONE, ""} THEN [value |-> st.ls[testId], diag |-> <<>>]
  ELSE IF st.cookie.kind = "absent" THEN [value |-> NONE, diag |-> <<>>]
  ELSE IF st.cookie.kind = "malformed" THEN [value |-> NONE, diag |-> <<"warn:get">>]
  ELSE LET variants == ParseCookie(st.cookie)
       IN [value |-> IF variants[testId] = "" THEN NONE ELSE variants[testId],
           diag |-> <<>>]

\* storeVariant: [st, diag].
storeVariant(env, st, testId, variantId) ==
  IF ~env.hasWindow THEN [st |-> st, diag |-> <<>>]
  ELSE IF env.ls # "ok" THEN [st |-> st, diag |-> <<"warn:store">>]
  ELSE LET variants == ParseCookie(st.cookie)
       IN [st |-> [ls |-> [st.ls EXCEPT ![testId] = variantId],
                   cookie |-> setCookie([variants EXCEPT ![testId] = variantId])],
           diag |-> <<>>]

\* ------------------------------------------------------------------ analytics

EmptyMeta == <<>>

\* { ...a, ...b }: b's keys win.
Spread(a, b) ==
  [k \in DOMAIN a \cup DOMAIN b |-> IF k \in DOMAIN b THEN b[k] ELSE a[k]]

\* A trackAnalyticsEvent that ignores abTestConfig.analyticsEnabled.
trackAnalyticsEventAlways(cfg, env, type, testId, variantId, metadata) ==
  IF env.hasWindow /\ env.sink # "absent"
  THEN [calls |-> <<[type |-> type, testId |-> testId, variantId |-> variantId,
                     payload |-> Spread([test_id |-> testId, variant_id |-> variantId],
                                        metadata)]>>,
        diag |-> <<>>,
        raised |-> env.sink = "throws"]
  ELSE [calls |-> <<>>, diag |-> <<>>, raised |-> FALSE]

\* trackAnalyticsEvent: [calls, diag, raised].  A call is the event object with
\* the payload handed to window.va('track', type, payload).
trackAnalyticsEvent(cfg, env, type, testId, variantId, metadata) ==
  IF ~cfg.analyticsEnabled THEN [calls |-> <<>>, diag |-> <<>>, raised |-> FALSE]
  ELSE LET diag == IF cfg.debugMode THEN <<"log:event">> ELSE <<>>
       IN IF env.hasWindow /\ env.sink # "absent"
          THEN [calls |-> <<[type |-> type, testId |-> testId, variantId |-> variantId,
                             payload |-> Spread([test_id |-> testId, variant_id |-> variantId],
                                                metadata)]>>,
                diag |-> diag,
                raised |-> env.sink = "throws"]
          ELSE [calls |-> <<>>, diag |-> diag, raised |-> FALSE]

\* -------------------------------------------------------------- operations

\* What a call leaves behind: the value returned (NullVariant for null, and when
\* the call raised), whether it raised, the stores after it, the sink calls it
\* made, the diagnostics it printed and the storeVariant calls it made.
Outcome(result, raised, st, calls, diag, writes) ==
  [result |-> result, raised |-> raised, st |-> st, calls |-> calls, diag |-> diag,
   writes |-> writes]

\* A getVariant that reports a new assignment to the sink before it stores it:
\* a sink call that raises leaves the stores as they were.
getVariantTrackFirst(reg, cfg, env, st, testId, userId, n) ==
  LET test == getTestByIdFromRegistry(reg, testId)
  IN IF test = NullTest \/ ~test.enabled \/ ~cfg.enabled
     THEN Outcome(getDefaultVariant(test), FALSE, st, <<>>, <<>>, <<>>)
     ELSE LET rd == getStoredVariant(env, st, testId)
              storedVariant == rd.value
          IN IF storedVariant # NONE /\ isValidVariant(test, storedVariant)
             THEN LET tr == trackAnalyticsEvent(cfg, env, VARIANT_VIEWED, testId,
                                                storedVariant, EmptyMeta)
                  IN Outcome(IF tr.raised THEN NullVariant
                             ELSE getVariantById(test, storedVariant),
                             tr.raised, st, tr.calls, rd.diag \o tr.diag, <<>>)
             ELSE LET selectedVariant == assignVariantByWeight(test, userId, n)
                  IN IF selectedVariant # NullVariant
                     THEN LET tr == trackAnalyticsEvent(cfg, env, VARIANT_ASSIGNED, testId,
                                                        selectedVariant.id, EmptyMeta)
                              wr == IF tr.raised THEN [st |-> st, diag |-> <<>>]
                                    ELSE storeVariant(env, st, testId, selectedVariant.id)
                          IN Outcome(IF tr.raised THEN NullVariant ELSE selectedVariant,
                                     tr.raised, wr.st, tr.calls,
                                     rd.diag \o tr.diag \o wr.diag,
                                     IF tr.raised THEN <<>>
                                     ELSE <<<<testId, selectedVariant.id>>>>)
                     ELSE Outcome(getDefaultVariant(test), FALSE, st, <<>>, rd.diag, <<>>)

\* A getVariant that looks at neither abTestConfig.enabled nor test.enabled:
\* it resolves a disabled test as it resolves an enabled one.
getVariantUnguarded(reg, cfg, env, st, testId, userId, n) ==
  getVariantTrackFirst([i \in 1..Len(reg) |-> [reg[i] EXCEPT !.enabled = TRUE]],
                       [cfg EXCEPT !.enabled = TRUE], env, st, testId, userId, n)

\* getVariant(testId, userId), with n the draw Math.random() would give.
getVariant(reg, cfg, env, st, testId, userId, n) ==
  LET test == getTestByIdFromRegistry(reg, testId)
  IN IF test = NullTest \/ ~test.enabled \/ ~cfg.enabled
     THEN Outcome(getDefaultVariant(test), FALSE, st, <<>>, <<>>, <<>>)
     ELSE LET rd == getStoredVariant(env, st, testId)
              storedVariant == rd.value
          IN IF storedVariant # NONE /\ isValidVariant(test, storedVariant)
             THEN LET tr == trackAnalyticsEvent(cfg, env, VARIANT_VIEWED, testId,
                                                storedVariant, EmptyMeta)
                  IN Outcome(IF tr.raised THEN NullVariant
                             ELSE getVariantById(test, storedVariant),
                             tr.raised, st, tr.calls, rd.diag \o tr.diag, <<>>)
             ELSE LET selectedVariant == assignVariantByWeight(test, userId, n)
                  IN IF selectedVariant # NullVariant
                     THEN LET wr == storeVariant(env, st, testId, selectedVariant.id)
                              tr == trackAnalyticsEvent(cfg, env, VARIANT_ASSIGNED, testId,
                                                        selectedVariant.id, EmptyMeta)
                          IN Outcome(IF tr.raised THEN NullVariant ELSE selectedVariant,
                                     tr.raised, wr.st, tr.calls,
                                     rd.diag \o wr.diag \o tr.diag,
                                     <<<<testId, selectedVariant.id>>>>)
                     ELSE Outcome(getDefaultVariant(test), FALSE, st, <<>>, rd.diag, <<>>)

\* A tracking call that does not look for a stored assignment first.
trackWithUngated(cfg, env, st, type, field, testId, kind, metadata) ==
  LET tr == [calls |-> <<[type |-> type, testId |-> testId, variantId |-> NONE,
                          payload |-> Spread([k \in {field} |-> kind], metadata)]>>,
             diag |-> <<>>, raised |-> FALSE]
  IN Outcome(NullVariant, tr.raised, st, tr.calls, tr.diag, <<>>)

\* trackConversion / trackInteraction: field is conversion_type or interaction_type.
trackWith(cfg, env, st, type, field, testId, kind, metadata) ==
  LET rd == getStoredVariant(env, st, testId)
  IN IF rd.value # NONE
     THEN LET tr == trackAnalyticsEvent(cfg, env, type, testId, rd.value,
                                        Spread([k \in {field} |-> kind], metadata))
          IN Outcome(NullVariant, tr.raised, st, tr.calls, rd.diag \o tr.diag, <<>>)
     ELSE Outcome(NullVariant, FALSE, st, <<>>, rd.diag, <<>>)

\* conversionType defaults to 'default' when the caller passes none.
trackConversion(cfg, env, st, testId, conversionType, metadata) ==
  trackWith(cfg, env, st, VARIANT_CONVERSION, "conversion_type", testId,
            IF conversionType = UNDEF THEN "default" ELSE conversionType, metadata)

trackInteraction(cfg, env, st, testId, interactionType, metadata) ==
  trackWith(cfg, env, st, VARIANT_INTERACTION, "interaction_type", testId,
            interactionType, metadata)

\* A forceVariant that does not look at abTestConfig.debugMode.
forceVariantAlways(cfg, env, st, testId, variantId) ==
  LET wr == storeVariant(env, st, testId, variantId)
  IN Outcome(NullVariant, FALSE, wr.st, <<>>, wr.diag \o <<"log:forced">>,
             <<<<testId, variantId>>>>)

\* forceVariant(testId, variantId).
forceVariant(cfg, env, st, testId, variantId) ==
  IF ~cfg.debugMode THEN Outcome(NullVariant, FALSE, st, <<>>, <<"warn:force">>, <<>>)
  ELSE LET wr == storeVariant(env, st, testId, variantId)
       IN Outcome(NullVariant, FALSE, wr.st, <<>>, wr.diag \o <<"log:forced">>,
                  <<<<testId, variantId>>>>)

\* getABTestDebugInfo: the registry's tests in order, each resolved by
\* getVariant(test.testId) with a fresh Math.random() draw; a call that raises
\* ends the loop.  An outcome's result is unused; info lists the variant ids
\* reported under currentVariants (NONE for undefined).
DebugStep(reg, cfg, env, acc, i, n) ==
  LET o == getVariant(reg, cfg, env, acc.st, reg[i].testId, UNDEF, n)
  IN [result |-> NullVariant, raised |-> o.raised, st |-> o.st,
      calls |-> acc.calls \o o.calls, diag |-> acc.diag \o o.diag,
      writes |-> acc.writes \o o.writes,
      info |-> IF o.raised THEN acc.info ELSE Append(acc.info, o.result.id)]

RECURSIVE DebugLoop(_, _, _, _, _)
DebugLoop(reg, cfg, env, accs, i) ==
  IF i > Len(reg) THEN accs
  ELSE DebugLoop(reg, cfg, env,
                 {a \in accs : a.raised}
                   \cup {DebugStep(reg, cfg, env, a, i, n) :
                           a \in {b \in accs : ~b.raised}, n \in 0..(RandDen - 1)},
                 i + 1)

\* The outcomes getABTestDebugInfo can have, over the draws of Math.random().
getABTestDebugInfo(reg, cfg, env, st) ==
  LET start == [result |-> NullVariant, raised |-> FALSE, st |-> st,
                calls |-> <<>>, diag |-> <<>>, writes |-> <<>>, info |-> <<>>]
  IN IF ~env.hasWindow THEN {start}
     ELSE DebugLoop(reg, cfg, env, {start}, 1)

\* ------------------------------------------------------------ binding layer

\* A variant's config as the CTA section reads it: heading, subtitle and the
\* four fields of form, UNDEF where the object has no such key.  null marks the
\* value null, on which every optional read (config?.heading) gives undefined.
Config(heading, subtitle, submitText) ==
  [null |-> FALSE, heading |-> heading, subtitle |-> subtitle,
   form |-> [emailPlaceholder |-> UNDEF, messagePlaceholder |-> UNDEF,
             submitText |-> submitText, action |-> UNDEF]]

NullConfig == [Config(UNDEF, UNDEF, UNDEF) EXCEPT !.null = TRUE]

\* heroVariant3.config, of the variant 'safety-first' the examples add to the
\* hero test: like the shipped hero variants it has title, subtitle, quote, cta.
heroVariant3Config ==
  Config(UNDEF,
         "Every miner deserves to come home safe. We're building AI that watches their back.",
         UNDEF)

\* variant.config of the variants ctaABTest declares, and the hero test's, whose
\* objects (title, subtitle, quote, cta) have the subtitle key only of those
\* read here; the mission test's variants (problem) carry none of them.
VariantConfigOf(variant) ==
  IF variant.id = "safety-first" THEN heroVariant3Config
  ELSE IF variant.id = "original"
  THEN Config(UNDEF,
              "Mining is still dangerous. We're building guardians who never blink.",
              UNDEF)
  ELSE IF variant.id = "protective-focus"
  THEN Config(UNDEF,
              "Protecting those who still dare to dig. A new era of mining has begun.",
              UNDEF)
  ELSE IF variant.id = "mission-focus"
  THEN Config("Join the Mission",
              "Help us build AI systems that protect lives and honor the Earth.",
              "Back the Mission")
  ELSE IF variant.id = "tech-focus"
  THEN Config("See Our Technology",
              "Discover how AI-powered guardians are revolutionizing mining safety.",
              "Learn More")
  ELSE IF variant.id = "community-focus"
  THEN Config("Join Our Community",
              "Be part of the movement to make mining safer for everyone.",
              "Get Involved")
  ELSE Config(UNDEF, UNDEF, UNDEF)

\* getVariantConfig(testId, userId): variant?.config || null.
getVariantConfig(reg, cfg, env, st, testId, userId, n) ==
  LET o == getVariant(reg, cfg, env, st, testId, userId, n)
  IN [o EXCEPT !.result = IF o.raised \/ o.result = NullVariant
                          THEN NullConfig
                          ELSE VariantConfigOf(o.result)]

getCTAVariant(reg, cfg, env, st, userId, n) ==
  getVariantConfig(reg, cfg, env, st, CtaId, userId, n)

\* a || b of JavaScript on strings.
OrElse(a, b) == IF a \in {UNDEF, NONE, ""} THEN b ELSE a

\* Props of <ABTestEnabledCTASection/>: given lists the props the caller passes.
Form(emailPlaceholder, messagePlaceholder, submitText, action) ==
  [emailPlaceholder |-> emailPlaceholder, messagePlaceholder |-> messagePlaceholder,
   submitText |-> submitText, action |-> action]

NoForm == Form(UNDEF, UNDEF, UNDEF, UNDEF)

NoProps == [given |-> {}, heading |-> UNDEF, subtitle |-> UNDEF, form |-> NoForm]

FallbackProps ==
  [given |-> {"heading", "subtitle", "form"},
   heading |-> "Fallback Title", subtitle |-> "Fallback Subtitle",
   form |-> Form("Your email", "Your message", "Send", "/contact")]

HeadingProps == [NoProps EXCEPT !.given = {"heading"}, !.heading = "Fallback Title"]

CTAProps == {NoProps, FallbackProps, HeadingProps}

\* The destructuring defaults of the component's parameters.
WithDefaults(props) ==
  [heading |-> IF "heading" \in props.given THEN props.heading ELSE "Join the Mission",
   subtitle |-> IF "subtitle" \in props.given THEN props.subtitle
                ELSE "Help us build AI systems that protect lives and honor the Earth.",
   form |-> IF "form" \in props.given THEN props.form
            ELSE Form("Enter your email", "Tell us how you'd like to help...",
                      "Back the Mission", "https://formspree.io/f/mdkdpgvn")]

\* What the section shows for its props and the config its hook holds.
ABTestEnabledCTASection(props, cfg) ==
  LET p == WithDefaults(props)
  IN [heading |-> OrElse(cfg.heading, p.heading),
      subtitle |-> OrElse(cfg.subtitle, p.subtitle),
      form |-> Form(OrElse(cfg.form.emailPlaceholder, p.form.emailPlaceholder),
                    OrElse(cfg.form.messagePlaceholder, p.form.messagePlaceholder),
                    OrElse(cfg.form.submitText, p.form.submitText),
                    OrElse(cfg.form.action, p.form.action))]

\* ------------------------------------------------------------ state machine

VARIABLES
  registry,   \* Object.values(abTestRegistry)
  config,     \* abTestConfig: enabled, analyticsEnabled, debugMode
  env,        \* the execution environment: hasWindow, ls, sink
  store,      \* [ls, cookie]: localStorage and the cookie mirror
  exposed,    \* tests the sink got a 'viewed' or 'assigned' event for, this page session
  counts,     \* per test: getVariant's 'assigned' events and storeVariant calls so far
  last,       \* the last engine call: its arguments and its outcome
  external,   \* how often the stores were written, cleared or expired from outside
  forced,     \* whether forceVariant has written to the stores
  focus,      \* the test the page under study mounts: the testId of its direct calls
  sel,        \* the last weighted selection of SpecSelect
  page,       \* the mounted CTA section: its props, the hook's state, what it renders
  tabs        \* two tabs of one visitor inside getVariant: where each is, what it holds

vars == <<registry, config, env, store, exposed, counts, last, external, forced, focus, sel, page, tabs>>

Configs ==
  [enabled : BOOLEAN, analyticsEnabled : BOOLEAN, debugMode : BOOLEAN]

\* abTestConfig as shipped.
abTestConfig == [enabled |-> TRUE, analyticsEnabled |-> TRUE, debugMode |-> FALSE]

\* A browser whose storage and sink work, the same with one of them failing,
\* and a render pass without window.  env.now is the day new Date() would give.
Browser == [hasWindow |-> TRUE, ls |-> "ok", sink |-> "ok", now |-> 0]
Envs ==
  { Browser,
    [Browser EXCEPT !.sink = "absent"],
    [Browser EXCEPT !.sink = "throws"],
    [Browser EXCEPT !.ls = "full"],
    [Browser EXCEPT !.ls = "denied"],
    [hasWindow |-> FALSE, ls |-> "ok", sink |-> "absent", now |-> 0] }

EmptyStore == [ls |-> NoEntries, cookie |-> NoCookie]

\* No call yet.  For a call on testId, primary and secondary are what the two
\* stores held for testId when it began, and stored what getStoredVariant read;
\* writes lists the storeVariant(testId, variantId) calls it made.
Idle ==
  [op |-> "none", testId |-> NONE, arg |-> NONE, meta |-> EmptyMeta,
   result |-> NullVariant, raised |-> FALSE, calls |-> <<>>, diag |-> <<>>,
   primary |-> NONE, secondary |-> NONE, stored |-> NONE, info |-> <<>>,
   writes |-> <<>>]

NoCounts == [t \in TestIds |-> [assigned |-> 0, written |-> 0]]

NoSelection == [test |-> NullTest, userId |-> UNDEF, n |-> 0, result |-> NullVariant]

\* The contexts of one visitor that share the stores, each inside one
\* getVariant(focus, visitor) call.  pc is the storage access the tab makes
\* next: "start" (localStorage.getItem, line 120), "getCookie" (document.cookie
\* read of getStoredVariant, line 124), "setItem" (line 145), "readCookie"
\* (document.cookie read of storeVariant, line 148), "writeCookie" (line 160),
\* or "done" (the call returned result).  primary and secondary are what the
\* stores held when the call began, item what getItem gave, read what
\* getStoredVariant returned, selected the variant drawn, cookie the cookie
\* storeVariant read, and out the call's outcome as far as what the tab read
\* decides it (result, raised, calls, diag, writes).
Tabs == {"A", "B"}
NoOut == [result |-> NullVariant, raised |-> FALSE, calls |-> <<>>, diag |-> <<>>,
          writes |-> <<>>]
NoTab ==
  [pc |-> "idle", visitor |-> UNDEF, primary |-> NONE, secondary |-> NONE,
   item |-> NONE, read |-> NONE, selected |-> NullVariant, cookie |-> NoCookie,
   out |-> NoOut, result |-> NullVariant]
NoTabs == [c \in Tabs |-> NoTab]

\* No section mounted.  config and isLoading are the hook's state as of the
\* last render, rendered what that render gave; queued tells that the effect
\* has called setConfig(next) and setIsLoading(false) and the render they
\* schedule has not run yet.
NoPage ==
  [mounted |-> FALSE, props |-> NoProps, config |-> NullConfig, isLoading |-> TRUE,
   queued |-> FALSE, next |-> NullConfig,
   rendered |-> [heading |-> UNDEF, subtitle |-> UNDEF, form |-> NoForm]]

Init ==
  /\ registry \in Registries
  /\ config \in Configs
  /\ env \in Envs
  /\ focus \in TestIds
  \* a failing environment is met by the shipped registry with the hero test
  \* mounted; the registries a guide describes are run in the working browser
  /\ env = Browser \/ (registry = abTestRegistry /\ focus = HeroId)
  /\ store = EmptyStore
  /\ exposed = {}
  /\ counts = NoCounts
  /\ last = Idle
  /\ external = 0
  /\ forced = FALSE
  /\ sel = NoSelection
  /\ page = NoPage
  /\ tabs = NoTabs

\* Inputs of the tracking calls.
ConversionTypes == {UNDEF, "form_submission"}
InteractionTypes == {"form_field_focus"}
Metadatas == {EmptyMeta}

\* Ids forceVariant is called with: the test's own, and one no test declares.
StaleId == "retired"
VariantIdsOf(reg, testId) ==
  LET test == getTestByIdFromRegistry(reg, testId)
  IN {test.variants[i].id : i \in 1..Len(test.variants)}
ForceIds(reg, testId) == VariantIdsOf(reg, testId) \cup {StaleId}

\* The 'assigned' events for test t among the sink calls of an outcome, and the
\* storeVariant calls for t among its writes.
AssignedCount(calls, t) ==
  Cardinality({i \in 1..Len(calls) : calls[i].type = VARIANT_ASSIGNED /\ calls[i].testId = t})

WrittenCount(writes, t) ==
  Cardinality({i \in 1..Len(writes) : writes[i][1] = t})

\* An engine call ends: the stores take its outcome, and the record of what the
\* sink has seen and of getVariant's assignments is brought up to date.
Complete(op, testId, arg, meta, o, info) ==
  LET Lifecycle(c) == c.type \in {VARIANT_VIEWED, VARIANT_ASSIGNED}
      resolves == op \in {"getVariant", "getABTestDebugInfo"}
      after == [t \in TestIds |->
                 [assigned |-> counts[t].assigned + AssignedCount(o.calls, t),
                  written |-> counts[t].written
                                + (IF resolves THEN WrittenCount(o.writes, t) ELSE 0)]]
  IN /\ \A t \in TestIds : after[t].assigned <= MaxAssigns /\ after[t].written <= MaxAssigns
     /\ store' = o.st
     /\ exposed' = exposed \cup {o.calls[i].testId : i \in {j \in 1..Len(o.calls) : Lifecycle(o.calls[j])}}
     /\ counts' = after
     /\ last' = [op |-> op, testId |-> testId, arg |-> arg, meta |-> meta,
                 result |-> o.result, raised |-> o.raised, calls |-> o.calls, diag |-> o.diag,
                 primary |-> IF testId \in AllTestIds THEN store.ls[testId] ELSE NONE,
                 secondary |-> IF testId \in AllTestIds
                               THEN ParseCookie(store.cookie)[testId] ELSE NONE,
                 stored |-> IF testId \in AllTestIds
                            THEN getStoredVariant(env, store, testId).value ELSE NONE,
                 info |-> info,
                 writes |-> o.writes]
     /\ forced' = (forced \/ (op = "forceVariant" /\ o.writes # <<>>))
     /\ UNCHANGED <<registry, config, env, external, focus, sel, tabs>>

\* An engine call made outside the mounted section leaves the section as it is.
Finish(op, testId, arg, meta, o, info) ==
  /\ Complete(op, testId, arg, meta, o, info)
  /\ UNCHANGED page

GetVariant ==
  \E testId \in {focus, UnknownId}, userId \in UserIds, n \in 0..(RandDen - 1) :
    \* the draw is read only when there is no visitor id, and neither is read
    \* for a testId the registry does not hold
    /\ userId = UNDEF \/ n = 0
    /\ testId = UnknownId => (userId = UNDEF /\ n = 0)
    /\ Finish("getVariant", testId, NONE, EmptyMeta,
              getVariant(registry, config, env, store, testId, userId, n), <<>>)

TrackConversion ==
  \E testId \in {focus}, conversionType \in ConversionTypes, metadata \in Metadatas :
    Finish("trackConversion", testId, conversionType, metadata,
           trackConversion(config, env, store, testId, conversionType, metadata), <<>>)

TrackInteraction ==
  \E testId \in {focus}, interactionType \in InteractionTypes, metadata \in Metadatas :
    Finish("trackInteraction", testId, interactionType, metadata,
           trackInteraction(config, env, store, testId, interactionType, metadata), <<>>)

ForceVariant ==
  \E testId \in {focus} :
    \E variantId \in ForceIds(registry, testId) :
      Finish("forceVariant", testId, variantId, EmptyMeta,
             forceVariant(config, env, store, testId, variantId), <<>>)

GetABTestDebugInfo ==
  \E o \in getABTestDebugInfo(registry, config, env, store) :
    Finish("getABTestDebugInfo", NONE, NONE, EmptyMeta, o, o.info)

\* The visitor or the browser clears the stores, the cookie expires, or the cookie
\* holds what an earlier session or another origin of the host left there.
ExternalClear ==
  /\ env.hasWindow
  /\ external < MaxExternal
  /\ store # EmptyStore
  /\ store' = EmptyStore
  /\ external' = external + 1
  /\ UNCHANGED <<registry, config, env, exposed, counts, last, forced, focus, sel, page, tabs>>

CookieExpire ==
  /\ env.hasWindow
  /\ external < MaxExternal
  /\ store.cookie # NoCookie
  /\ store' = [store EXCEPT !.cookie = NoCookie]
  /\ external' = external + 1
  /\ UNCHANGED <<registry, config, env, exposed, counts, last, forced, focus, sel, page, tabs>>

ExternalWriteCookie ==
  /\ env.hasWindow
  /\ external < MaxExternal
  /\ \E testId \in {focus} :
       \E variantId \in ForceIds(registry, testId) :
         store' = [store EXCEPT !.cookie = JsonCookie([NoEntries EXCEPT ![testId] = variantId])]
  /\ external' = external + 1
  /\ UNCHANGED <<registry, config, env, exposed, counts, last, forced, focus, sel, page, tabs>>

\* A visitor's page session: the engine's calls, with the stores open to the
\* outside.
Next ==
  \/ GetVariant
  \/ TrackConversion
  \/ TrackInteraction
  \/ ForceVariant
  \/ ExternalClear
  \/ CookieExpire
  \/ ExternalWriteCookie

Spec == Init /\ [][Next]_vars

\* A session at the debug console: the engine's calls and getABTestDebugInfo,
\* with nothing but the engine touching the stores.
NextDebug ==
  \/ GetVariant
  \/ TrackConversion
  \/ TrackInteraction
  \/ ForceVariant
  \/ GetABTestDebugInfo

SpecDebug == Init /\ [][NextDebug]_vars

\* ------------------------------------------------- tracking with metadata

\* Metadata a caller hands to trackConversion / trackInteraction: none, a key
\* of its own (the CTA section's form_field_focus passes { field }), and the
\* keys the engine sets itself.
TrackMetadatas ==
  { EmptyMeta,
    [field |-> "email"],
    [test_id |-> "other-test"],
    [variant_id |-> "other-variant"],
    [conversion_type |-> "other-type"],
    [interaction_type |-> "other-type"] }

TrackConversionWith ==
  \E testId \in {focus}, conversionType \in ConversionTypes, metadata \in TrackMetadatas :
    Finish("trackConversion", testId, conversionType, metadata,
           trackConversion(config, env, store, testId, conversionType, metadata), <<>>)

TrackInteractionWith ==
  \E testId \in {focus}, interactionType \in InteractionTypes, metadata \in TrackMetadatas :
    Finish("trackInteraction", testId, interactionType, metadata,
           trackInteraction(config, env, store, testId, interactionType, metadata), <<>>)

InitTrack ==
  /\ registry \in Registries
  /\ config \in Configs
  /\ env \in {Browser, [Browser EXCEPT !.sink = "absent"]}
  /\ focus \in TestIds
  /\ store = EmptyStore
  /\ exposed = {}
  /\ counts = NoCounts
  /\ last = Idle
  /\ external = 0
  /\ forced = FALSE
  /\ sel = NoSelection
  /\ page = NoPage
  /\ tabs = NoTabs

NextTrack ==
  \/ GetVariant
  \/ TrackConversionWith
  \/ TrackInteractionWith

SpecTrack == InitTrack /\ [][NextTrack]_vars

\* ------------------------------------------------- a page with every section

\* The page mounts every section: getVariant and forceVariant are called for
\* any test of the registry, in any order, in a browser whose stores work.
\* forceVariant takes any string for an id: a variant's, and for the hero test
\* one holding a ';'.
GetVariantAny ==
  \E testId \in TestIds, n \in 0..(RandDen - 1) :
    Finish("getVariant", testId, NONE, EmptyMeta,
           getVariant(registry, config, env, store, testId, UNDEF, n), <<>>)

ForceVariantAny ==
  \E testId \in TestIds :
    \E variantId \in {getTestByIdFromRegistry(registry, testId).variants[1].id}
                       \cup (IF testId = focus THEN SemicolonIds ELSE {}) :
      Finish("forceVariant", testId, variantId, EmptyMeta,
             forceVariant(config, env, store, testId, variantId), <<>>)

\* Testing on, on with the debug console opened, and off; analytics is off
\* throughout, so that a state is the stores and the last call.
FrameConfigs ==
  { [enabled |-> TRUE, analyticsEnabled |-> FALSE, debugMode |-> FALSE],
    [enabled |-> TRUE, analyticsEnabled |-> FALSE, debugMode |-> TRUE],
    [enabled |-> FALSE, analyticsEnabled |-> FALSE, debugMode |-> TRUE] }

InitFrame ==
  /\ registry \in Registries
  /\ config \in FrameConfigs
  /\ env = Browser
  /\ focus = HeroId
  /\ store = EmptyStore
  /\ exposed = {}
  /\ counts = NoCounts
  /\ last = Idle
  /\ external = 0
  /\ forced = FALSE
  /\ sel = NoSelection
  /\ page = NoPage
  /\ tabs = NoTabs

NextFrame ==
  \/ GetVariantAny
  \/ ForceVariantAny
  \/ TrackConversion
  \/ TrackInteraction
  \/ GetABTestDebugInfo

SpecFrame == InitFrame /\ [][NextFrame]_vars

\* ------------------------------------------------- two tabs of one visitor

\* Each tab runs getVariant(focus, visitor) on the stores the tabs share: the
\* tabs have no lock in common, so a step of a tab is one access to
\* localStorage or document.cookie together with the code that follows it up
\* to the next access, and the other tab can run between any two steps.

\* The call in tab c returns with outcome o: the sink has seen its events.
TabReturn(c, o, primary, secondary, read) ==
  /\ tabs' = [tabs EXCEPT ![c].pc = "done", ![c].primary = primary,
                            ![c].secondary = secondary, ![c].read = read,
                            ![c].out = [result |-> o.result, raised |-> o.raised,
                                        calls |-> o.calls, diag |-> o.diag,
                                        writes |-> o.writes],
                            ![c].result = o.result]
  /\ exposed' = exposed \cup {o.calls[i].testId : i \in 1..Len(o.calls)}
  /\ counts' = [t \in TestIds |->
                 [assigned |-> counts[t].assigned + AssignedCount(o.calls, t),
                  written |-> counts[t].written + WrittenCount(o.writes, t)]]
  /\ last' = [op |-> "getVariant", testId |-> focus, arg |-> NONE, meta |-> EmptyMeta,
              result |-> o.result, raised |-> o.raised, calls |-> o.calls,
              diag |-> o.diag, primary |-> primary, secondary |-> secondary,
              stored |-> read, info |-> <<>>, writes |-> o.writes]

\* Lines 26-33 on what getStoredVariant gave the tab, view being the stores as
\* the tab read them: the stored variant is returned (with its 'viewed' event),
\* or the default when none can be selected, or a variant is selected and the
\* tab goes on to storeVariant.
TabResolve(c, view, primary, secondary, n) ==
  LET o == getVariant(registry, config, env, view, focus, tabs[c].visitor, n)
      rd == getStoredVariant(env, view, focus)
  IN IF o.writes = <<>>
     THEN /\ TabReturn(c, o, primary, secondary, rd.value)
          /\ store' = store
     ELSE /\ tabs' = [tabs EXCEPT ![c].pc = "setItem", ![c].primary = primary,
                                   ![c].secondary = secondary, ![c].read = rd.value,
                                   ![c].selected =
                                     assignVariantByWeight(
                                       getTestByIdFromRegistry(registry, focus),
                                       tabs[c].visitor, n),
                                   ![c].out = [result |-> o.result, raised |-> o.raised,
                                               calls |-> o.calls, diag |-> o.diag,
                                               writes |-> o.writes]]
          /\ UNCHANGED <<store, exposed, counts, last>>

\* Lines 19-22 and getStoredVariant up to localStorage.getItem (lines 117-121):
\* a test not in effect returns its default with no storage access; an item
\* found, or an environment in which the cookie is not read (no window, a
\* getItem that throws), ends getStoredVariant here.
TabGetItem(c, n) ==
  LET test == getTestByIdFromRegistry(registry, focus)
      primary == store.ls[focus]
      secondary == ParseCookie(store.cookie)[focus]
  IN /\ tabs[c].pc = "start"
     /\ IF test = NullTest \/ ~test.enabled \/ ~config.enabled
        THEN /\ TabReturn(c, getVariant(registry, config, env, store, focus,
                                        tabs[c].visitor, n),
                          primary, secondary, NONE)
             /\ store' = store
        ELSE IF ~env.hasWindow \/ env.ls = "denied" \/ store.ls[focus] \notin {NONE, ""}
        THEN TabResolve(c, store, primary, secondary, n)
        ELSE /\ tabs' = [tabs EXCEPT ![c].pc = "getCookie", ![c].primary = primary,
                                      ![c].secondary = secondary,
                                      ![c].item = store.ls[focus]]
             /\ UNCHANGED <<store, exposed, counts, last>>
     /\ UNCHANGED <<registry, config, env, external, forced, focus, sel, page>>

\* getCookie of getStoredVariant (line 124) and lines 125-33: the tab sees the
\* item it read before and the cookie as it is now.
TabGetCookie(c, n) ==
  /\ tabs[c].pc = "getCookie"
  /\ TabResolve(c, [ls |-> [store.ls EXCEPT ![focus] = tabs[c].item],
                    cookie |-> store.cookie],
                tabs[c].primary, tabs[c].secondary, n)
  /\ UNCHANGED <<registry, config, env, external, forced, focus, sel, page>>

\* The end of the call after storeVariant: trackAnalyticsEvent and the return
\* (lines 36-37), with the outcome fixed when the variant was selected.
TabAssigned(c) ==
  TabReturn(c, tabs[c].out, tabs[c].primary, tabs[c].secondary, tabs[c].read)

\* storeVariant up to localStorage.setItem (lines 141-145).  Without a window,
\* or when setItem throws, storeVariant ends here and the call goes on to its
\* event and return.
TabSetItem(c) ==
  LET wr == storeVariant(env, store, focus, tabs[c].selected.id)
  IN /\ tabs[c].pc = "setItem"
     /\ IF ~env.hasWindow \/ env.ls # "ok"
        THEN /\ store' = store
             /\ TabAssigned(c)
        ELSE /\ store' = [store EXCEPT !.ls = wr.st.ls]
             /\ tabs' = [tabs EXCEPT ![c].pc = "readCookie"]
             /\ UNCHANGED <<exposed, counts, last>>
     /\ UNCHANGED <<registry, config, env, external, forced, focus, sel, page>>

\* getCookie of storeVariant (line 148).
TabReadCookie(c) ==
  /\ tabs[c].pc = "readCookie"
  /\ tabs' = [tabs EXCEPT ![c].pc = "writeCookie", ![c].cookie = store.cookie]
  /\ UNCHANGED <<registry, config, env, store, exposed, counts, last, external,
                 forced, focus, sel, page>>

\* Lines 149-160: the map parsed from the cookie the tab read, with the tab's
\* entry set, replaces the cookie; then the event and the return.
TabWriteCookie(c) ==
  LET wr == storeVariant(env, [ls |-> store.ls, cookie |-> tabs[c].cookie], focus,
                         tabs[c].selected.id)
  IN /\ tabs[c].pc = "writeCookie"
     /\ store' = [store EXCEPT !.cookie = wr.st.cookie]
     /\ TabAssigned(c)
     /\ UNCHANGED <<registry, config, env, external, forced, focus, sel, page>>

\* The visitor of a session: anonymous, or known by an id.
Visitors == {UNDEF, "u7", "alice"}

InitTabs ==
  /\ registry \in Registries
  /\ config \in Configs
  /\ env = Browser
  /\ focus \in TestIds
  /\ store = EmptyStore
  /\ exposed = {}
  /\ counts = NoCounts
  /\ last = Idle
  /\ external = 0
  /\ forced = FALSE
  /\ sel = NoSelection
  /\ page = NoPage
  /\ \E userId \in Visitors :
       tabs = [c \in Tabs |-> [NoTab EXCEPT !.pc = "start", !.visitor = userId]]

\* n is the draw Math.random() gives the tab, read only when it selects for a
\* visitor without an id.
NextTabs ==
  \/ \E c \in Tabs, n \in 0..(RandDen - 1) :
       /\ tabs[c].visitor = UNDEF \/ n = 0
       /\ TabGetItem(c, n)
  \/ \E c \in Tabs, n \in 0..(RandDen - 1) :
       /\ tabs[c].visitor = UNDEF \/ n = 0
       /\ TabGetCookie(c, n)
  \/ \E c \in Tabs : TabSetItem(c)
  \/ \E c \in Tabs : TabReadCookie(c)
  \/ \E c \in Tabs : TabWriteCookie(c)

SpecTabs == InitTabs /\ [][NextTabs]_vars

\* ------------------------------------------------- a returning visitor

\* What an earlier visit can have left for test t of reg: in localStorage
\* nothing, the first variant's id or an id the test no longer declares; in
\* the cookie nothing, text that does not parse, the last variant's id for t,
\* or an entry for another test only.
EarlierStores(reg, t) ==
  LET test == getTestByIdFromRegistry(reg, t)
      other == CHOOSE u \in TestIds : u # t
  IN { [ls |-> [NoEntries EXCEPT ![t] = p], cookie |-> c] :
         p \in {NONE, test.variants[1].id, StaleId},
         c \in { NoCookie, MalformedCookie,
                 JsonCookie([NoEntries EXCEPT ![t] = test.variants[Len(test.variants)].id]),
                 JsonCookie([NoEntries EXCEPT ![other] = StaleId]) } }

InitStore ==
  /\ registry \in Registries
  /\ config \in Configs
  /\ env \in Envs
  /\ focus \in TestIds
  \* the failing environments as in Init, and the throwing sink also for the
  \* hero tests a guide describes
  /\ \/ env = Browser
     \/ (registry = abTestRegistry /\ focus = HeroId)
     \/ (env.sink = "throws" /\ focus = HeroId)
  /\ store \in EarlierStores(registry, focus)
  /\ exposed = {}
  /\ counts = NoCounts
  /\ last = Idle
  \* what the stores hold was not written in this page session
  /\ external = (IF store = EmptyStore THEN 0 ELSE MaxExternal)
  /\ forced = FALSE
  /\ sel = NoSelection
  /\ page = NoPage
  /\ tabs = NoTabs

\* The engine's calls on the stores an earlier visit left.
NextStore ==
  \/ GetVariant
  \/ TrackConversion
  \/ TrackInteraction
  \/ ForceVariant

SpecStore == InitStore /\ [][NextStore]_vars

\* ----------------------------------------------------- a scheduled test

\* heroABTest with the startDate and endDate of the guide's Test Scheduling,
\* as days of the clock, in the registry in place of heroABTest.
heroScheduled ==
  [testId |-> HeroId, enabled |-> TRUE, defaultVariant |-> "original",
   variants |-> <<V("original", 50), V("protective-focus", 50)>>,
   startDate |-> 1, endDate |-> 2]

scheduledRegistry == <<heroScheduled, missionABTest, ctaABTest>>

InitSchedule ==
  /\ registry = scheduledRegistry
  /\ config \in Configs
  /\ env \in {[Browser EXCEPT !.now = t] : t \in 0..MaxTime}
  /\ focus = HeroId
  /\ store = EmptyStore
  /\ exposed = {}
  /\ counts = NoCounts
  /\ last = Idle
  /\ external = 0
  /\ forced = FALSE
  /\ sel = NoSelection
  /\ page = NoPage
  /\ tabs = NoTabs

NextSchedule ==
  \/ GetVariant
  \/ TrackConversion
  \/ TrackInteraction

SpecSchedule == InitSchedule /\ [][NextSchedule]_vars

\* The CTA section on a page.  The component renders once with the hook's
\* initial state (config null, isLoading true); in a browser the hook's effect
\* then calls getCTAVariant() and queues its result, and the component renders
\* again with it in a later step.
ServerRender == [hasWindow |-> FALSE, ls |-> "ok", sink |-> "absent", now |-> 0]

ctaDisabled == [ctaABTest EXCEPT !.enabled = FALSE]

PageRegistries ==
  { abTestRegistry,
    <<heroABTest, missionABTest, ctaDisabled>>,
    <<heroABTest, missionABTest, [ctaDefaultMissing EXCEPT !.enabled = FALSE]>>,
    <<heroDefaultUnweighted, missionAllZero, ctaDefaultMissing>> }

InitPage ==
  /\ registry \in PageRegistries
  /\ config \in Configs
  /\ env \in {Browser, ServerRender}
  /\ focus = CtaId
  /\ store \in {EmptyStore, [EmptyStore EXCEPT !.ls[CtaId] = "tech-focus"]}
  /\ exposed = {}
  /\ counts = NoCounts
  /\ last = Idle
  /\ external = 0
  /\ forced = FALSE
  /\ sel = NoSelection
  /\ page = NoPage
  /\ tabs = NoTabs

MountCTA ==
  /\ ~page.mounted
  /\ \E props \in CTAProps :
       page' = [mounted |-> TRUE, props |-> props, config |-> NullConfig,
                isLoading |-> TRUE, queued |-> FALSE, next |-> NullConfig,
                rendered |-> ABTestEnabledCTASection(props, NullConfig)]
  /\ UNCHANGED <<registry, config, env, store, exposed, counts, last, external,
                 forced, focus, sel, tabs>>

\* The hook's effect (lines 122-126): getCTAVariant(), then setConfig and
\* setIsLoading, which queue the new state; the section keeps its first render.
EffectCTA ==
  /\ page.mounted /\ page.isLoading /\ ~page.queued /\ env.hasWindow
  /\ \E n \in 0..(RandDen - 1) :
       LET v == getVariant(registry, config, env, store, CtaId, UNDEF, n)
           c == getCTAVariant(registry, config, env, store, UNDEF, n)
       IN /\ Complete("getVariant", CtaId, NONE, EmptyMeta, v, <<>>)
          /\ page' = IF c.raised THEN page
                     ELSE [page EXCEPT !.queued = TRUE, !.next = c.result]

\* The render the queued updates schedule: the hook returns the new config and
\* isLoading false, and the component computes what it shows (lines 30-40).
RenderCTA ==
  /\ page.mounted /\ page.queued
  /\ page' = [page EXCEPT !.queued = FALSE, !.next = NullConfig,
                           !.config = page.next, !.isLoading = FALSE,
                           !.rendered = ABTestEnabledCTASection(page.props, page.next)]
  /\ UNCHANGED <<registry, config, env, store, exposed, counts, last, external,
                 forced, focus, sel, tabs>>

\* The section's handlers, closures of its last render: they run in a browser
\* on the visitor's events, before or after the effect and the second render.

\* handleFormSubmit (lines 42-50), through the hook's trackCTAConversion.
handleFormSubmit ==
  /\ page.mounted /\ env.hasWindow
  /\ LET metadata == [submit_text |-> page.rendered.form.submitText,
                      variant_heading |-> page.rendered.heading,
                      form_action |-> page.rendered.form.action]
     IN Finish("trackConversion", CtaId, "form_submission", metadata,
               trackConversion(config, env, store, CtaId, "form_submission", metadata),
               <<>>)

\* handleFormInteraction(field) (lines 52-54), on focus of either input.
handleFormInteraction ==
  /\ page.mounted /\ env.hasWindow
  /\ \E field \in {"email", "message"} :
       LET metadata == [field |-> field]
       IN Finish("trackInteraction", CtaId, "form_field_focus", metadata,
                 trackInteraction(config, env, store, CtaId, "form_field_focus", metadata),
                 <<>>)

\* handleHeadingView (lines 56-58), when the heading enters the viewport.
handleHeadingView ==
  /\ page.mounted /\ env.hasWindow
  /\ LET metadata == [heading_text |-> page.rendered.heading]
     IN Finish("trackInteraction", CtaId, "heading_view", metadata,
               trackInteraction(config, env, store, CtaId, "heading_view", metadata),
               <<>>)

\* The clicks on the two community links (lines 205, 215): no metadata.
LinkClick ==
  /\ page.mounted /\ env.hasWindow
  /\ \E interactionType \in {"discord_link_click", "github_link_click"} :
       Finish("trackInteraction", CtaId, interactionType, EmptyMeta,
              trackInteraction(config, env, store, CtaId, interactionType, EmptyMeta),
              <<>>)

NextPage ==
  \/ MountCTA
  \/ EffectCTA
  \/ RenderCTA
  \/ handleFormSubmit
  \/ handleFormInteraction
  \/ handleHeadingView
  \/ LinkClick

SpecPage == InitPage /\ [][NextPage]_vars

\* ------------------------------------------- weighted selection on its own

\* The tests assignVariantByWeight is applied to: every test of Registries.
SelectTests == UNION {{reg[i] : i \in 1..Len(reg)} : reg \in Registries}

InitSelect ==
  /\ registry = abTestRegistry
  /\ config = abTestConfig
  /\ env = Browser
  /\ store = EmptyStore
  /\ exposed = {}
  /\ counts = NoCounts
  /\ last = Idle
  /\ external = 0
  /\ forced = FALSE
  /\ focus = HeroId
  /\ sel = NoSelection
  /\ page = NoPage
  /\ tabs = NoTabs

Select ==
  /\ \E test \in SelectTests, userId \in UserIds \cup {""}, n \in 0..(RandDen - 1) :
       sel' = [test |-> test, userId |-> userId, n |-> n,
               result |-> assignVariantByWeight(test, userId, n)]
  /\ UNCHANGED <<registry, config, env, store, exposed, counts, last, external, forced, focus, page, tabs>>

NextSelect == Select

SpecSelect == InitSelect /\ [][NextSelect]_vars

\* Selections for visitors with an id: the ids of UserIds, further ids, and
\* for each shipped test an id whose hash with the testId is -2^31.
HashUserIds ==
  (UserIds \ {UNDEF})
    \cup {"lafqpnl", "1jtmnnh", "gya11un", "bob", "carol", "dave", "eve", "guest", "v1"}

SelectHashed ==
  /\ \E test \in SelectTests, userId \in HashUserIds :
       sel' = [test |-> test, userId |-> userId, n |-> 0,
               result |-> assignVariantByWeight(test, userId, 0)]
  /\ UNCHANGED <<registry, config, env, store, exposed, counts, last, external, forced, focus, page, tabs>>

NextHash == SelectHashed

SpecHash == InitSelect /\ [][NextHash]_vars

\* ------------------------------------------------------------ properties

\* The test the last call named, and what the configuration says of it.
LastTest == getTestByIdFromRegistry(registry, last.testId)
LastKnown == last.testId \in TestIds
LastActive == LastKnown /\ LastTest.enabled /\ config.enabled
Resolved == last.op = "getVariant" /\ LastKnown
Tracked == last.op \in {"trackConversion", "trackInteraction"}

\* The variant a test declares as its default, none when it names no variant.
DeclaredDefault(test) ==
  IF \E i \in 1..Len(test.variants) : test.variants[i].id = test.defaultVariant
  THEN test.variants[CHOOSE i \in 1..Len(test.variants) :
                       /\ test.variants[i].id = test.defaultVariant
                       /\ \A j \in 1..(i - 1) : test.variants[j].id # test.defaultVariant]
  ELSE NullVariant

\* C1 (assignment stability): a getVariant call on an enabled test whose
\* stores hold a valid variant id returns that variant, and does not raise.
C1_AssignmentStability ==
  (Resolved /\ LastActive /\ last.stored # NONE /\ isValidVariant(LastTest, last.stored))
    => (~last.raised /\ last.result.id = last.stored)

\* C1, where the sink does not throw: the stored variant is returned.
C1_StableUnlessSinkThrows ==
  (Resolved /\ LastActive /\ last.stored # NONE /\ isValidVariant(LastTest, last.stored)
     /\ ~(config.analyticsEnabled /\ env.sink = "throws"))
    => (~last.raised /\ last.result.id = last.stored)

\* C2 (fallback correctness): a getVariant call on a test that is disabled,
\* or made while A/B testing is globally disabled, returns the test's declared
\* default variant whatever the stores hold, and does not raise.
C2_FallbackCorrectness ==
  (Resolved /\ ~LastActive)
    => (~last.raised /\ last.result = DeclaredDefault(LastTest))

\* C2's case: the stores held a valid variant other than the default, and the
\* default was returned.
C2_Witness ==
  /\ Resolved /\ ~LastActive
  /\ last.stored # NONE
  /\ isValidVariant(LastTest, last.stored)
  /\ last.stored # LastTest.defaultVariant
  /\ last.result.id = LastTest.defaultVariant

\* Every conversion or interaction event of the last call is for a test the
\* sink already got a 'viewed' or 'assigned' event for.
TrackedAfterExposure ==
  \A i \in 1..Len(last.calls) :
    last.calls[i].type \in {VARIANT_CONVERSION, VARIANT_INTERACTION}
      => last.calls[i].testId \in exposed

\* C3 as stated (ordering guarantee): every conversion or interaction event
\* for a test is preceded, in the same page session, by a viewed or assigned
\* event for that test.
C3_OrderingAsStated == TrackedAfterExposure

\* C3 (ordering guarantee), amended: the same, for a page session that began
\* with empty stores and in which nothing but getVariant wrote to them, with
\* the analytics flag and the sink unchanged throughout.
C3_Ordering ==
  (external = 0 /\ ~forced) => TrackedAfterExposure

\* C3's case: a conversion or interaction event went out after getVariant's.
C3_Witness ==
  /\ Tracked /\ Len(last.calls) = 1
  /\ external = 0 /\ ~forced
  /\ last.testId \in exposed

\* C4 as stated (conversion gating): a tracking call emits no event when
\* neither store holds an assignment for the test, and exactly one when a
\* store does.
C4_GatingAsStated ==
  Tracked =>
    Len(last.calls) = (IF last.primary # NONE \/ last.secondary # NONE THEN 1 ELSE 0)

\* C4 (conversion gating), amended: a tracking call emits no event when
\* neither store holds an assignment for the test; it emits exactly one when
\* getStoredVariant reads one, analytics is enabled and the sink is present,
\* and none otherwise.
C4_Gating ==
  Tracked =>
    /\ (last.primary = NONE /\ last.secondary = NONE) => Len(last.calls) = 0
    /\ Len(last.calls) =
         (IF last.stored # NONE /\ config.analyticsEnabled
             /\ env.hasWindow /\ env.sink # "absent"
          THEN 1 ELSE 0)
    /\ \A i \in 1..Len(last.calls) :
         last.calls[i].testId = last.testId /\ last.calls[i].variantId = last.stored

\* C4's case: a store held an assignment and one event went out.
C4_Witness ==
  /\ last.op = "trackConversion"
  /\ last.stored # NONE
  /\ Len(last.calls) = 1
  /\ last.calls[1].type = VARIANT_CONVERSION

\* C5 (storage precedence): when the primary store holds p and the secondary
\* holds s # p for an enabled test, getStoredVariant yields p and getVariant
\* returns the variant p.
C5_StoragePrecedence ==
  (Resolved /\ LastActive /\ last.primary # NONE /\ last.secondary # NONE
     /\ last.primary # last.secondary)
    => (last.stored = last.primary /\ ~last.raised /\ last.result.id = last.primary)

\* C5, where the sink does not throw and p names a variant of the test.
C5_PrecedenceUnlessSinkThrows ==
  (Resolved /\ LastActive /\ last.primary # NONE /\ last.secondary # NONE
     /\ last.primary # last.secondary /\ isValidVariant(LastTest, last.primary)
     /\ ~(config.analyticsEnabled /\ env.sink = "throws"))
    => (last.stored = last.primary /\ ~last.raised /\ last.result.id = last.primary)

\* C5's case under a working sink: the stores disagreed and p was returned.
C5_Disagreement ==
  /\ Resolved /\ LastActive
  /\ last.primary # NONE /\ last.secondary # NONE /\ last.primary # last.secondary
  /\ last.result.id = last.primary

\* --------------------------------------------- properties of the selection

Selected == sel.test # NullTest
Drawn == Selected /\ sel.userId \in {UNDEF, ""}
Hashed == Selected /\ sel.userId \notin {UNDEF, ""}

\* The reference rule, stated on the variants as declared: the positions
\* with weight > 0, the weight accumulated up to a position, and 100 * r for
\* the scalar r = n / RandDen set against it.
WeightedAt(test) == {i \in 1..Len(test.variants) : test.variants[i].weight > 0}

RECURSIVE SumWeights(_, _)
SumWeights(test, S) ==
  IF S = {} THEN 0
  ELSE LET i == CHOOSE j \in S : TRUE
       IN test.variants[i].weight + SumWeights(test, S \ {i})

CumulativeAt(test, i) == SumWeights(test, {j \in WeightedAt(test) : j <= i})
TotalWeight(test) == SumWeights(test, WeightedAt(test))
MeetsOrExceeds(test, i, n) == CumulativeAt(test, i) * RandDen >= 100 * n

FirstOf(S) == CHOOSE i \in S : \A j \in S : i <= j

ReferenceChoice(test, n) ==
  LET meeting == {i \in WeightedAt(test) : MeetsOrExceeds(test, i, n)}
  IN IF meeting # {} THEN test.variants[FirstOf(meeting)]
     ELSE test.variants[FirstOf(WeightedAt(test))]

\* C6 (weighted selection): for a test with at least one variant of weight
\* > 0 and a drawn scalar r, assignVariantByWeight returns the first weighted
\* variant, in declaration order, whose cumulative weight meets or exceeds
\* 100 * r, and the first weighted variant when none does.
C6_WeightedSelection ==
  (Drawn /\ WeightedAt(sel.test) # {})
    => sel.result = ReferenceChoice(sel.test, sel.n)

\* C6's case: weights 60 and 40, a scalar past 0.6, the second variant chosen.
C6_Witness ==
  /\ Drawn
  /\ sel.test = missionABTest
  /\ 100 * sel.n > 60 * RandDen
  /\ sel.result.id = "aspirational"

\* The scalar of the selection exceeds what the weights cover.
Unallocated ==
  /\ Selected
  /\ WeightedAt(sel.test) # {}
  /\ TotalWeight(sel.test) < 100
  /\ ~PercentLeq(SelectionScalar(sel.test, sel.userId, sel.n), TotalWeight(sel.test))

\* C7 as stated (unallocated traffic): when the positive weights sum to less
\* than 100 and the scaled scalar exceeds the sum, the default variant is
\* selected.
C7_UnallocatedAsStated ==
  Unallocated => sel.result = DeclaredDefault(sel.test)

\* C7 (unallocated traffic), amended: when the positive weights sum to less
\* than 100 and the scaled scalar exceeds the sum, the first declared variant
\* of weight > 0 is selected, whichever variant the test names as default.
C7_Unallocated ==
  Unallocated => sel.result = sel.test.variants[FirstOf(WeightedAt(sel.test))]

\* C7's case: a scalar in the gap of a test whose default is not its first
\* weighted variant.
C7_Witness ==
  /\ Unallocated
  /\ sel.test.defaultVariant # sel.test.variants[FirstOf(WeightedAt(sel.test))].id
  /\ sel.result = sel.test.variants[FirstOf(WeightedAt(sel.test))]

\* C8 (determinism of the hash path): two selections with the same non-empty
\* userId and the same test return the same variant, whatever Math.random()
\* would have drawn.
C8_Determinism ==
  [][(Hashed /\ sel'.test = sel.test /\ sel'.userId = sel.userId)
       => sel'.result = sel.result]_vars

\* C8's case: a selection by userId made while the draw was not zero.
C8_Witness ==
  /\ Hashed
  /\ sel.n # 0
  /\ sel.result # NullVariant

\* ------------------------------------------------ properties of a session

\* C9 (single assignment): while storage works and nothing but getVariant
\* writes to the stores, a page session has at most one 'assigned' event and
\* at most one storeVariant call per test, however many getVariant and
\* getABTestDebugInfo calls are made.
C9_SingleAssignment ==
  (env.hasWindow /\ env.ls = "ok" /\ external = 0 /\ ~forced)
    => \A t \in TestIds : counts[t].assigned <= 1 /\ counts[t].written <= 1

\* C9's case: getABTestDebugInfo ran after the tests were assigned, reported a
\* variant for each of them, and still each test was written once.
C9_Witness ==
  /\ last.op = "getABTestDebugInfo"
  /\ env.hasWindow /\ env.ls = "ok" /\ ~forced
  /\ Len(last.info) = Len(registry)
  /\ \E t \in TestIds : counts[t].written = 1 /\ counts[t].assigned = 1
  /\ \E i \in 1..Len(last.calls) : last.calls[i].type = VARIANT_VIEWED

\* C10 (sink failure): a sink that is absent or that fails when called never
\* makes getVariant, trackConversion or trackInteraction raise.
C10_SinkNeverRaises ==
  last.op \in {"getVariant", "trackConversion", "trackInteraction"} => ~last.raised

\* C10, for an absent sink: the call does not raise and resolves as it would
\* with a working sink.
C10_AbsentSinkSilent ==
  (env.sink = "absent" /\ last.op \in {"getVariant", "trackConversion", "trackInteraction"})
    => (~last.raised /\ last.calls = <<>>)

\* ------------------------------------------- properties of the storage layer

\* The last call made storeVariant(t, v) calls, and the stores as it left them.
Stored == last.writes # <<>>

\* C11 (write contract): storeVariant(t, v) writes v under t to both stores:
\* after it returns where there is storage, the cookie map holds v for t
\* whatever the stores held and even when the localStorage write fails, and
\* localStorage holds v for t even when the cookie text was malformed.
C11_WritesBoth ==
  \A i \in 1..Len(last.writes) :
    LET t == last.writes[i][1]
        v == last.writes[i][2]
    IN env.hasWindow
         => /\ ParseCookie(store.cookie)[t] = v
            /\ (env.ls = "ok" => store.ls[t] = v)

\* C11, where the localStorage write succeeds: both stores hold v for t, also
\* over a malformed cookie.
C11_WritesBothWhenPrimaryAccepts ==
  \A i \in 1..Len(last.writes) :
    LET t == last.writes[i][1]
        v == last.writes[i][2]
    IN (env.hasWindow /\ env.ls = "ok")
         => (store.ls[t] = v /\ store.cookie = JsonCookie(ParseCookie(store.cookie))
               /\ store.cookie.map[t] = v)

\* C11, where the localStorage write throws: neither store changes.
C11_NothingWhenPrimaryThrows ==
  (Stored /\ env.hasWindow /\ env.ls # "ok")
    => (store.ls[last.testId] = last.primary
          /\ ParseCookie(store.cookie)[last.testId] = last.secondary)

\* A read of test t fails: there is no window, localStorage throws, or
\* localStorage has nothing for t and the cookie text does not parse.  A write
\* fails: there is no window, or localStorage.setItem throws.
ReadFails(t) ==
  \/ ~env.hasWindow
  \/ env.ls = "denied"
  \/ (store.ls[t] \in {NONE, ""} /\ store.cookie.kind = "malformed")

WriteFails == ~env.hasWindow \/ env.ls # "ok"

FocusTest == getTestByIdFromRegistry(registry, focus)

\* What C12 says of a call on the mounted test: it reads no assignment where
\* the read fails, writes nothing where the write fails, and getVariant on an
\* enabled test then makes a first-time assignment, returning a variant of
\* the test without raising; sinkMayThrow says whether that is asked of a
\* call whose sink throws too.
CacheMissStep(sinkMayThrow) ==
  (last'.testId = focus /\ ReadFails(focus))
    => /\ last'.stored = NONE
       /\ WriteFails => store' = store
       /\ (/\ last'.op = "getVariant"
           /\ FocusTest.enabled /\ config.enabled
           /\ (sinkMayThrow \/ ~(config.analyticsEnabled /\ env.sink = "throws")))
            => /\ ~last'.raised
               /\ isValidVariant(FocusTest, last'.result.id)
               /\ last'.writes = <<<<focus, last'.result.id>>>>

\* C12 (storage failure is a cache miss): when a store is unavailable, throws
\* or holds text that does not decode, getStoredVariant returns none and
\* storeVariant writes nothing, neither raises, and getVariant on an enabled
\* test proceeds as a first-time assignment and returns a variant of the test.
C12_CacheMiss == [][CacheMissStep(TRUE)]_vars

\* C12, for calls whose sink does not throw.
C12_CacheMissUnlessSinkThrows == [][CacheMissStep(FALSE)]_vars

\* C12's case under a working sink: the cookie did not parse, and getVariant
\* assigned afresh and replaced it.
C12_Recovered ==
  /\ last.op = "getVariant" /\ LastActive
  /\ last.stored = NONE /\ last.primary = NONE
  /\ last.writes # <<>>
  /\ ~last.raised
  /\ store.cookie.kind = "json" /\ store.cookie.map[last.testId] = last.result.id
  /\ external > 0

\* The last call was getVariant on an enabled test whose stored id names none
\* of the test's variants.
StaleResolved ==
  /\ Resolved /\ LastActive
  /\ last.stored # NONE
  /\ ~isValidVariant(LastTest, last.stored)

\* C13 (stale stored assignment): when the stored variant id of an enabled
\* test names none of its variants, getVariant returns the test's default
\* variant (no variant if the default is absent too) and does not raise.
C13_StaleFallsToDefault ==
  StaleResolved => (~last.raised /\ last.result = DeclaredDefault(LastTest))

\* C13, as the code recovers where the sink does not throw: the stale id is
\* passed over, a variant of positive weight (the default when no variant has
\* one) is assigned afresh and stored, and the call does not raise.
C13_StaleReassigned ==
  (StaleResolved /\ ~(config.analyticsEnabled /\ env.sink = "throws"))
    => /\ ~last.raised
       /\ last.writes = <<<<last.testId, last.result.id>>>>
       /\ IF WeightedAt(LastTest) = {}
          THEN last.result = DeclaredDefault(LastTest)
          ELSE last.result.weight > 0 /\ isValidVariant(LastTest, last.result.id)

\* C13's case under a working sink: a variant other than the default came back.
C13_StaleNotDefault ==
  /\ StaleResolved
  /\ ~last.raised
  /\ last.result # DeclaredDefault(LastTest)

\* ----------------------------------------------- properties of the override

\* A step from forceVariant(t, B) in debug mode, B a variant of t, to the next
\* getVariant(t).
ForcedThenResolved ==
  /\ last.op = "forceVariant" /\ config.debugMode
  /\ isValidVariant(LastTest, last.arg)
  /\ last'.op = "getVariant" /\ last'.testId = last.testId

\* C14 (forced override wins): in debug mode, after forceVariant(t, B) with B
\* a variant of t, the next getVariant(t, userId) returns B, whatever the
\* weights, the userId and the assignment stored before.
C14_ForcedWins ==
  [][ForcedThenResolved => (~last'.raised /\ last'.result.id = last.arg)]_vars

\* C14, for an enabled test under enabled testing, with storage that takes the
\* write and a sink that does not throw: B is returned as a stored variant.
C14_ForcedWinsWhenStored ==
  [][(/\ ForcedThenResolved
      /\ LastActive
      /\ env.hasWindow /\ env.ls = "ok"
      /\ ~(config.analyticsEnabled /\ env.sink = "throws"))
       => /\ ~last'.raised
          /\ last'.result.id = last.arg
          /\ last'.stored = last.arg
          /\ last'.writes = <<>>]_vars

\* C14's case under a working sink: B replaced another stored assignment and
\* came back from getVariant.
C14_ForcedReturned ==
  /\ Resolved /\ LastActive /\ forced
  /\ last.stored = last.primary
  /\ last.secondary = last.primary
  /\ last.result.id = last.stored
  /\ external > 0

\* C15 (forceVariant is inert outside debug mode): with debugMode false,
\* forceVariant(t, v) leaves localStorage, the cookie and the record of
\* emitted events as they were, for every t and v; it only prints a warning.
C15_ForceInert ==
  [][(last'.op = "forceVariant" /\ ~config.debugMode)
       => /\ store' = store
          /\ exposed' = exposed
          /\ counts' = counts
          /\ last'.calls = <<>>
          /\ last'.writes = <<>>
          /\ last'.diag = <<"warn:force">>
          /\ ~last'.raised]_vars

\* C15's case: forceVariant was called outside debug mode with an id other
\* than the one localStorage holds, and localStorage holds it still.
C15_Witness ==
  /\ last.op = "forceVariant" /\ ~config.debugMode
  /\ last.primary # NONE /\ last.primary # last.arg
  /\ store.ls[last.testId] = last.primary
  /\ last.diag = <<"warn:force">>

\* The last call was a first-time assignment by getVariant: it stored the id
\* it selected.
FirstTimeAssigned == Resolved /\ LastActive /\ last.writes # <<>>

\* In a test that has a variant of positive weight, the variant a first-time
\* assignment selected has a positive weight.
ZeroWeightNeverAllocated ==
  (FirstTimeAssigned /\ WeightedAt(LastTest) # {})
    => getVariantById(LastTest, last.writes[1][2]).weight > 0

\* A step from forceVariant(t, id) in debug mode, id a variant of t of weight
\* 0, to the next getVariant(t).
ZeroWeightForcedThenResolved ==
  /\ ForcedThenResolved
  /\ getVariantById(LastTest, last.arg).weight = 0

\* C16 (weight 0): a variant of weight 0 is never the result of weighted
\* allocation in a first-time resolution, yet after forceVariant(t, id) in
\* debug mode getVariant(t) returns that weight-0 variant.
C16_ZeroWeight ==
  [][/\ ZeroWeightNeverAllocated'
     /\ ZeroWeightForcedThenResolved
          => (~last'.raised /\ last'.result.id = last.arg)]_vars

\* C16, with the override asked of an enabled test under enabled testing, with
\* storage that takes the write and a sink that does not throw.
C16_ZeroWeightUnlessSinkThrows ==
  [][/\ ZeroWeightNeverAllocated'
     /\ (/\ ZeroWeightForcedThenResolved
         /\ LastActive
         /\ env.hasWindow /\ env.ls = "ok"
         /\ ~(config.analyticsEnabled /\ env.sink = "throws"))
          => (~last'.raised /\ last'.result.id = last.arg)]_vars

\* C16's case under a working sink: a variant of weight 0 came back from
\* getVariant after it was forced.
C16_ZeroWeightReturned ==
  /\ Resolved /\ LastActive /\ forced
  /\ ~last.raised
  /\ last.result.id = last.stored
  /\ last.result.weight = 0
  /\ last.result # NullVariant

\* --------------------------------------- properties of the analytics flag

FlagOn == [config EXCEPT !.analyticsEnabled = TRUE]
FlagOff == [config EXCEPT !.analyticsEnabled = FALSE]

\* No event of an outcome reached the sink or the event log of debug mode.
Silent(o) ==
  /\ o.calls = <<>>
  /\ \A i \in 1..Len(o.diag) : o.diag[i] # "log:event"

\* Two outcomes resolve and write alike.
SameResolution(a, b) ==
  /\ a.result = b.result
  /\ a.raised = b.raised
  /\ a.st = b.st
  /\ a.writes = b.writes

\* A call made with the flag off emitted nothing.
FlagOffSilent ==
  (~config.analyticsEnabled /\ last.op # "none")
    => (Silent(last) /\ ~last.raised)

\* From the stores as they are, every call on the mounted test resolves and
\* writes with the flag off as it does with the flag on.
FlagOffResolvesAlike ==
  /\ \A userId \in UserIds, n \in 0..(RandDen - 1) :
       SameResolution(getVariant(registry, FlagOff, env, store, focus, userId, n),
                      getVariant(registry, FlagOn, env, store, focus, userId, n))
  /\ \A conversionType \in ConversionTypes :
       SameResolution(trackConversion(FlagOff, env, store, focus, conversionType, EmptyMeta),
                      trackConversion(FlagOn, env, store, focus, conversionType, EmptyMeta))
  /\ \A interactionType \in InteractionTypes :
       SameResolution(trackInteraction(FlagOff, env, store, focus, interactionType, EmptyMeta),
                      trackInteraction(FlagOn, env, store, focus, interactionType, EmptyMeta))
  /\ {[info |-> o.info, raised |-> o.raised, st |-> o.st, writes |-> o.writes] :
        o \in getABTestDebugInfo(registry, FlagOff, env, store)}
       = {[info |-> o.info, raised |-> o.raised, st |-> o.st, writes |-> o.writes] :
            o \in getABTestDebugInfo(registry, FlagOn, env, store)}

\* C17 (analytics flag off): with analyticsEnabled false no operation
\* (getVariant, trackConversion, trackInteraction, getABTestDebugInfo) sends
\* anything to the sink or to the event log, while variant resolution and
\* storage writes are the same as with the flag on.
C17_FlagOffNoOp == FlagOffSilent /\ FlagOffResolvesAlike

\* C17, where the sink does not throw.
C17_FlagOffNoOpUnlessSinkThrows ==
  FlagOffSilent /\ (env.sink # "throws" => FlagOffResolvesAlike)

\* C17's case under a working sink: getABTestDebugInfo ran with the flag off,
\* assigned and stored variants, and the sink got nothing.
C17_SilentAssignment ==
  /\ ~config.analyticsEnabled
  /\ env.sink = "ok"
  /\ last.op = "getABTestDebugInfo"
  /\ last.writes # <<>>
  /\ last.calls = <<>>

\* --------------------------------------------- properties of the schedule

\* The test declares an activation window and the clock is outside it.
OutsideWindow(test) ==
  /\ "startDate" \in DOMAIN test
  /\ (env.now < test.startDate \/ env.now > test.endDate)

\* C18 (activation window): for a test that declares startDate/endDate,
\* getVariant assigns a variant only while the current time is inside the
\* window; outside it the test is treated as not running: the default variant
\* is returned and nothing is stored or emitted.
C18_ActivationWindow ==
  (Resolved /\ OutsideWindow(LastTest))
    => /\ last.writes = <<>>
       /\ last.calls = <<>>
       /\ last.result = DeclaredDefault(LastTest)

\* C18, as the code resolves: a getVariant call outside the window of an
\* enabled test assigns, stores and reports a variant as for any running test.
C18_AssignedOutsideWindow ==
  /\ Resolved /\ LastActive /\ OutsideWindow(LastTest)
  /\ last.writes = <<<<last.testId, last.result.id>>>>
  /\ last.result.id = "protective-focus"
  /\ Len(last.calls) = 1 /\ last.calls[1].type = VARIANT_ASSIGNED

\* ------------------------------------------------------------ C19

PageTest == getTestByIdFromRegistry(registry, CtaId)
PageDisabled == ~config.enabled \/ ~PageTest.enabled
PagePassed == WithDefaults(page.props)

\* The section shows the values passed in its props, and only those.
RendersProps ==
  /\ page.rendered.heading = PagePassed.heading
  /\ page.rendered.subtitle = PagePassed.subtitle
  /\ page.rendered.form = PagePassed.form

\* C19: with abTestConfig.enabled false, or with the section's test disabled,
\* the mounted CTA section renders the values passed in its props (heading,
\* subtitle, form) and not a variant's configuration.
C19_PropsFallback == (page.mounted /\ PageDisabled) => RendersProps

\* What the code does with testing disabled: once the hook's effect has run and
\* the section has rendered again, a declared default variant's config
\* supplies heading, subtitle and submitText over the props, and the props
\* supply the form fields no config names; until that render, and when the
\* test declares no matching default, the props show.
C19_DefaultConfigOverProps ==
  (page.mounted /\ PageDisabled) =>
    IF page.isLoading \/ DeclaredDefault(PageTest) = NullVariant
    THEN RendersProps
    ELSE /\ page.rendered.heading = VariantConfigOf(DeclaredDefault(PageTest)).heading
         /\ page.rendered.subtitle = VariantConfigOf(DeclaredDefault(PageTest)).subtitle
         /\ page.rendered.form.submitText
              = VariantConfigOf(DeclaredDefault(PageTest)).form.submitText
         /\ page.rendered.form.emailPlaceholder = PagePassed.form.emailPlaceholder
         /\ page.rendered.form.messagePlaceholder = PagePassed.form.messagePlaceholder
         /\ page.rendered.form.action = PagePassed.form.action

\* Testing is disabled, the caller passed a heading and a form, and the section
\* shows the default variant's heading and submit text instead.
C19_ConfigRendered ==
  /\ page.mounted /\ ~page.isLoading /\ ~config.enabled
  /\ page.props = FallbackProps
  /\ page.rendered.heading = "Join the Mission"
  /\ page.rendered.form.submitText = "Back the Mission"
  /\ page.rendered.form.action = "/contact"

\* ------------------------------------------------------------ C20

\* A test of reg: its testId names it alone, its variant ids differ, its
\* defaultVariant names exactly one variant, and its weights are integers of
\* 0..100 that sum to 100 or less.
WellFormedTest(reg, test) ==
  /\ Cardinality({i \in 1..Len(reg) : reg[i].testId = test.testId}) = 1
  /\ \A i, j \in 1..Len(test.variants) :
       test.variants[i].id = test.variants[j].id => i = j
  /\ Cardinality({i \in 1..Len(test.variants) : test.variants[i].id = test.defaultVariant}) = 1
  /\ \A i \in 1..Len(test.variants) : test.variants[i].weight \in 0..100
  /\ SumWeights(test, 1..Len(test.variants)) <= 100

WellFormedRegistry(reg) == \A i \in 1..Len(reg) : WellFormedTest(reg, reg[i])

\* C20: every test of the shipped abTestRegistry has a testId unique in the
\* registry, variant ids unique within the test, a defaultVariant matching
\* exactly one of its variants, integer weights in 0..100, and weights that sum
\* to 100 or less.
C20_RegistryWellFormed ==
  (registry = abTestRegistry) => WellFormedRegistry(registry)

\* The shipped registry is the one a mounted section has resolved its variant
\* from, while a registry of the guides' (a default naming no variant) is met
\* by the same page and is not well formed.
C20_Witness ==
  /\ registry = abTestRegistry
  /\ page.mounted /\ ~page.isLoading
  /\ last.op = "getVariant" /\ last.result # NullVariant
  /\ \E reg \in PageRegistries : ~WellFormedRegistry(reg)

\* ------------------------------------------------------------ C21

\* random * 100 splits [0,1) at the hundredths: the weights are integers, so
\* every scalar strictly inside (c/100, (c+1)/100) is set against them alike.
PercentCells == 100

\* A value of Math.random() strictly inside cell c: k / 2^31 for
\* k = floor(c * 2^31 / 100) + 1, kept as the halves of k.
CellScalar(c) ==
  LET k == c * 21474836 + ((c * 48) \div 100) + 1
  IN [src |-> "cell", hi |-> k \div 65536, lo |-> k % 65536]

\* The hundredths of [0,1) whose scalars select the i-th declared variant.
Share(test, i) ==
  Cardinality({c \in 0..(PercentCells - 1) :
                 SelectByWeight(test, CellScalar(c)) = test.variants[i]})

\* C21 as stated (weight conservation): over anonymous first-time resolutions
\* the share of the scalar range [0,1) that selects a variant is its declared
\* weight in hundredths.
C21_WeightConservationAsStated ==
  Selected => \A i \in 1..Len(sel.test.variants) :
                Share(sel.test, i) = sel.test.variants[i].weight

\* The share the declared weights leave to the i-th variant: its weight, and
\* for the first variant of weight > 0 also what the weights leave uncovered;
\* with no weight > 0 anywhere, everything for the default variant.
SharePlusRemainder(test, i) ==
  IF WeightedAt(test) = {}
  THEN (IF test.variants[i].id = test.defaultVariant THEN PercentCells ELSE 0)
  ELSE test.variants[i].weight
         + (IF i = FirstOf(WeightedAt(test)) THEN PercentCells - TotalWeight(test) ELSE 0)

\* C21 (weight conservation), amended: for a test whose weights sum to 100 or
\* less, the share of [0,1) that selects a variant is its declared weight in
\* hundredths, plus the uncovered remainder for the first variant of weight
\* > 0; a test with no weight > 0 gives the whole range to its default.
C21_WeightConservation ==
  (Selected /\ TotalWeight(sel.test) <= PercentCells) =>
    \A i \in 1..Len(sel.test.variants) :
      Share(sel.test, i) = SharePlusRemainder(sel.test, i)

\* C21's case: a drawn selection on weights 60 and 20, where the first variant
\* takes 80 hundredths; and on the shipped 33/33/34, where shares are weights.
C21_Witness ==
  /\ Drawn
  /\ sel.test = ctaShortfall
  /\ sel.result.id = "mission-focus"
  /\ Share(sel.test, 1) = 80 /\ Share(sel.test, 2) = 20
  /\ Share(ctaABTest, 1) = 33 /\ Share(ctaABTest, 2) = 33 /\ Share(ctaABTest, 3) = 34

\* ------------------------------------------------------------ C22

\* The last call was getVariant on a test in effect, with analytics enabled and
\* a sink present that took the event, and it returned a variant.
LifecycleCase ==
  /\ Resolved /\ LastActive
  /\ config.analyticsEnabled
  /\ env.hasWindow /\ env.sink = "ok"
  /\ ~last.raised /\ last.result # NullVariant

\* getStoredVariant read, before the call, an id the test declares.
StoredValidBefore == last.stored # NONE /\ isValidVariant(LastTest, last.stored)

\* The sink got exactly one event, for the returned variant, of the given type.
OneEvent(type) ==
  /\ Len(last.calls) = 1
  /\ last.calls[1].type = type
  /\ last.calls[1].testId = last.testId
  /\ last.calls[1].variantId = last.result.id
  /\ last.calls[1].payload.variant_id = last.result.id

\* An 'assigned' event of the last getVariant reached the sink only after the
\* assignment was stored: where storage takes writes the stores hold the
\* event's variant, also when the sink raised on the event.
AssignedAfterWrite ==
  (Resolved /\ last.calls # <<>> /\ last.calls[1].type = VARIANT_ASSIGNED)
    => /\ last.writes = <<<<last.testId, last.calls[1].variantId>>>>
       /\ env.ls = "ok" => /\ store.ls[last.testId] = last.calls[1].variantId
                           /\ ParseCookie(store.cookie)[last.testId]
                                = last.calls[1].variantId

\* C22 (one lifecycle event per resolution): with analytics enabled and a sink
\* present, a getVariant call on a test in effect that returns a variant emits
\* exactly one event, carrying the returned variant's id: 'ab_variant_viewed'
\* if a valid stored assignment was read before the call (and then nothing is
\* stored), 'ab_variant_assigned' otherwise; and the store write precedes the
\* 'assigned' event.
C22_OneLifecycleEvent ==
  /\ LifecycleCase =>
       IF StoredValidBefore
       THEN OneEvent(VARIANT_VIEWED) /\ last.writes = <<>>
       ELSE OneEvent(VARIANT_ASSIGNED)
  /\ AssignedAfterWrite

\* C22's cases: a stale stored id passed over and the new assignment reported
\* as 'assigned' after its write.
C22_Witness ==
  /\ LifecycleCase
  /\ last.stored = StaleId
  /\ OneEvent(VARIANT_ASSIGNED)
  /\ store.ls[last.testId] = last.result.id

\* The sink raised on the 'assigned' event, and the assignment is in the stores.
C22_WrittenBeforeRaise ==
  /\ Resolved /\ last.raised
  /\ last.calls # <<>> /\ last.calls[1].type = VARIANT_ASSIGNED
  /\ store.ls[last.testId] = last.calls[1].variantId

\* ------------------------------------------------------------ C23

\* The scalar hashStringToNumber(userId + testId) of the last selection, as the
\* halves of |hash|: the scalar is |hash| / 2^31.
HashOfSelection == hashStringToNumber(CharCodes(sel.userId) \o CharCodes(sel.test.testId))

\* C23 (hash range): hashStringToNumber returns a value of [0,1) for every
\* input string: |hash| < 2^31, so the scaled scalar is strictly below 100.
C23_HashRange ==
  Hashed => /\ HashOfSelection.hi < 32768
            /\ HashOfSelection.hi * 100 + ((HashOfSelection.lo * 100) \div 65536)
                 < 100 * 32768

\* What holds of the hash: it is a value of [0,1], and 1 exactly when the
\* 32-bit hash is -2^31.
C23_HashInClosedUnit ==
  Hashed => \/ HashOfSelection.hi < 32768
            \/ /\ HashOfSelection.hi = 32768 /\ HashOfSelection.lo = 0
               /\ HashLoop(CharCodes(sel.userId) \o CharCodes(sel.test.testId), 1,
                           [hi |-> 0, lo |-> 0]) = [hi |-> 32768, lo |-> 0]

\* The visitor id 'lafqpnl' on the hero test: the scalar is 1, the scaled
\* scalar 100, and the last variant of the 50/50 test is selected.
C23_ScalarOne ==
  /\ Hashed
  /\ sel.userId = "lafqpnl" /\ sel.test = heroABTest
  /\ HashOfSelection.hi = 32768 /\ HashOfSelection.lo = 0
  /\ sel.result.id = "protective-focus"

\* ------------------------------------------------------------ C24

\* The last call was trackConversion / trackInteraction and the sink got its
\* event.
Dispatched == Tracked /\ last.calls # <<>>

\* The discriminator the call sets and the value it sets it to.
TypeField ==
  IF last.op = "trackConversion" THEN "conversion_type" ELSE "interaction_type"
TypeArgument ==
  IF last.op = "trackConversion" /\ last.arg = UNDEF THEN "default" ELSE last.arg

FixedFieldsKept ==
  /\ last.calls[1].payload.test_id = last.testId
  /\ last.calls[1].payload.variant_id = last.stored
  /\ last.calls[1].payload[TypeField] = TypeArgument

\* C24 (fixed event fields survive metadata merging): for every metadata the
\* caller supplies, the payload trackConversion / trackInteraction dispatch to
\* the sink has test_id equal to the testId argument, variant_id equal to the
\* stored variant, and conversion_type / interaction_type equal to the type
\* argument ('default' for a conversion without one).
C24_FixedFields == Dispatched => FixedFieldsKept

\* What holds: the fixed fields are as set unless the metadata names them, and
\* every key of the metadata reaches the sink with the caller's value.
C24_MetadataWins ==
  Dispatched =>
    /\ (DOMAIN last.meta \cap {"test_id", "variant_id", TypeField} = {}) => FixedFieldsKept
    /\ \A k \in DOMAIN last.meta : last.calls[1].payload[k] = last.meta[k]

\* A conversion recorded for the stored variant of the hero test is dispatched
\* under the test_id the metadata carries.
C24_Overridden ==
  /\ Dispatched
  /\ last.op = "trackConversion" /\ last.testId = HeroId
  /\ last.stored \in {"original", "protective-focus"}
  /\ last.calls[1].payload.test_id = "other-test"

\* ------------------------------------------------------------ C25

\* The tests the step's call made storeVariant(t, v) calls for.
WrittenTests == {last'.writes[i][1] : i \in 1..Len(last'.writes)}

\* Across a step: no test loses its entry in either store, and a test the
\* call did not write keeps the entries it had.
FrameStep ==
  \A t \in TestIds :
    /\ store.ls[t] # NONE => store'.ls[t] # NONE
    /\ ParseCookie(store.cookie)[t] # NONE => ParseCookie(store'.cookie)[t] # NONE
    /\ t \notin WrittenTests
         => /\ store'.ls[t] = store.ls[t]
            /\ ParseCookie(store'.cookie)[t] = ParseCookie(store.cookie)[t]

\* C25 (per-test frame of a write): storeVariant(t, v) changes only t's entry:
\* every other test keeps its localStorage entry and its entry of the cookie
\* map, and no engine operation removes an entry from either store.
C25_Frame == [][FrameStep]_vars

\* What holds: the frame is kept by every call that stores no id holding a ';'.
C25_FrameUnlessSemicolon ==
  [][(\A i \in 1..Len(last'.writes) : last'.writes[i][2] \notin SemicolonIds)
       => FrameStep]_vars

\* Two tests resolved, the second write leaving the first test's entries.
C25_OtherEntryKept ==
  /\ last.op = "getVariant" /\ last.testId = CtaId /\ last.writes # <<>>
  /\ store.ls[MissionId] # NONE
  /\ ParseCookie(store.cookie)[MissionId] = store.ls[MissionId]
  /\ ParseCookie(store.cookie)[CtaId] = last.result.id

\* The mission test was resolved and stored, and after forceVariant on the hero
\* test the cookie no longer yields its entry.
C25_EntryLost ==
  /\ last.op = "forceVariant" /\ last.testId = HeroId /\ last.writes # <<>>
  /\ counts[MissionId].written > 0
  /\ store.ls[MissionId] # NONE
  /\ ParseCookie(store.cookie)[MissionId] = NONE

\* ------------------------------------------------------------ C26

\* A step from a getVariant(t) call that returned, to a trackConversion(t) or
\* trackInteraction(t) call whose event reached the sink.
ResolvedThenTracked ==
  /\ Resolved /\ ~last.raised
  /\ last'.op \in {"trackConversion", "trackInteraction"}
  /\ last'.testId = last.testId
  /\ last'.calls # <<>>

\* The event names a variant of the test, the one getVariant returned.
AttributedToReturned ==
  /\ isValidVariant(LastTest, last'.calls[1].variantId)
  /\ last'.calls[1].variantId = last.result.id

\* C26 (attribution consistency): an event trackConversion(t) or
\* trackInteraction(t) emits names a variant of test t, the variant the most
\* recent getVariant(t) call returned to the page, whatever the stores held and
\* the flags were.
C26_Attribution == [][ResolvedThenTracked => AttributedToReturned]_vars

\* What holds: the event names the returned variant when the test is in effect
\* and localStorage takes writes; tracking reads the stores, not the result.
C26_AttributionWhenStored ==
  [][(ResolvedThenTracked /\ LastActive /\ env.ls = "ok") => AttributedToReturned]_vars

\* A conversion reached the sink under an id the test does not declare.
C26_UndeclaredAttributed ==
  /\ Tracked /\ last.calls # <<>>
  /\ last.calls[1].variantId = StaleId
  /\ ~isValidVariant(LastTest, last.calls[1].variantId)

\* ------------------------------------------------------------ C27

\* The step is a getVariant call on a testId the registry does not hold, on a
\* disabled test, or with testing globally disabled.
DisabledResolution ==
  /\ last'.op = "getVariant"
  /\ \/ last'.testId \notin TestIds
     \/ ~getTestByIdFromRegistry(registry, last'.testId).enabled
     \/ ~config.enabled

\* C27 (the disabled / not-found path has no side effects): such a call leaves
\* both stores as they were, emits no analytics event and prints nothing, does
\* not raise, and returns null for a testId the registry does not hold.
C27_DisabledNoEffects ==
  [][DisabledResolution =>
       /\ store' = store
       /\ last'.calls = <<>> /\ exposed' = exposed
       /\ last'.writes = <<>> /\ last'.diag = <<>>
       /\ ~last'.raised
       /\ last'.testId \notin TestIds => last'.result = NullVariant]_vars

\* C27's case: testing is disabled while analytics is on and a sink is
\* present, the stores hold an assignment for the test, and the call left it
\* there and emitted nothing.
C27_Witness ==
  /\ Resolved /\ ~LastActive
  /\ config.analyticsEnabled /\ env.sink = "ok"
  /\ last.stored # NONE /\ store.ls[last.testId] = last.stored
  /\ last.result # NullVariant
  /\ last.calls = <<>>

\* ------------------------------------------------------------ C28

\* Both tabs' getVariant calls have returned, on a test in effect.
TabsDone ==
  /\ \A c \in Tabs : tabs[c].pc = "done"
  /\ FocusTest.enabled /\ config.enabled

\* The tabs hold the same variant, and both stores hold it for the test.
TabsAgree ==
  /\ \A c, d \in Tabs : tabs[c].result = tabs[d].result
  /\ \A c \in Tabs :
       /\ tabs[c].result # NullVariant
       /\ store.ls[focus] = tabs[c].result.id
       /\ ParseCookie(store.cookie)[focus] = tabs[c].result.id

\* C28 (same-visitor concurrent contexts agree): two tabs of one visitor that
\* share the stores and run getVariant(t) on an unassigned test, the storage
\* accesses of their read (getStoredVariant) and write (storeVariant) steps
\* interleaved, return the same variant, the one finally stored.
C28_TabsAgree == TabsDone => TabsAgree

\* What holds: the tabs agree when the visitor has an id, and when at least one
\* of them read the assignment the other had stored.
C28_TabsAgreeUnlessBothMiss ==
  (TabsDone /\ (\E c \in Tabs : tabs[c].visitor # UNDEF \/ tabs[c].read # NONE))
    => TabsAgree

\* Both tabs of an anonymous visitor read no assignment, and each returned its
\* own draw: the page shows two variants, the stores hold one.
C28_TabsDisagree ==
  /\ TabsDone
  /\ registry = abTestRegistry
  /\ \A c \in Tabs : tabs[c].read = NONE
  /\ tabs["A"].result # tabs["B"].result
  /\ \E c \in Tabs : store.ls[focus] # tabs[c].result.id

\* Both tabs returned, and the two stores are left holding different
\* variants for the test: one tab's setItem came last, the other's cookie write.
C28_StoresSplit ==
  /\ TabsDone
  /\ registry = abTestRegistry
  /\ store.ls[focus] # NONE
  /\ ParseCookie(store.cookie)[focus] # NONE
  /\ store.ls[focus] # ParseCookie(store.cookie)[focus]

\* ------------------------------------------------------------ C29

\* The step is a getABTestDebugInfo call.
Inspected == last'.op = "getABTestDebugInfo"

\* A later getVariant(focus, userId) returns after the inspection what it
\* would have returned without it, for every visitor id and draw.
SameLaterResolution ==
  \A userId \in UserIds, n \in 0..(RandDen - 1) :
    (userId = UNDEF \/ n = 0)
      => getVariant(registry, config, env, store', focus, userId, n).result
           = getVariant(registry, config, env, store, focus, userId, n).result

\* C29 (debug inspection is read-only): getABTestDebugInfo leaves both stores
\* and the history of emitted events unchanged, so that a later
\* getVariant(t, userId) returns the variant it would have returned had
\* getABTestDebugInfo not been called.
C29_InspectionReadOnly ==
  [][Inspected =>
       /\ store' = store
       /\ last'.calls = <<>> /\ exposed' = exposed
       /\ SameLaterResolution]_vars

\* What holds: in a browser the inspection reports one variant per test of the
\* registry unless a call raised, it stores what it assigns exactly as getVariant does,
\* and it leaves the stores alone when it assigns nothing (every test in
\* effect already has a valid stored assignment, or testing is off).
C29_InspectionResolves ==
  [][Inspected =>
       /\ (env.hasWindow /\ ~last'.raised) => Len(last'.info) = Len(registry)
       /\ last'.writes = <<>> => store' = store
       /\ ~config.enabled => (store' = store /\ last'.calls = <<>>)
       /\ \A i \in 1..Len(last'.writes) :
            env.ls = "ok" => store'.ls[last'.writes[i][1]] = last'.writes[i][2]]_vars

\* An inspection of empty stores assigned and stored a variant for every test
\* and reported each assignment to the sink.
C29_InspectionAssigned ==
  /\ last.op = "getABTestDebugInfo"
  /\ Len(last.writes) = Len(registry)
  /\ Len(last.calls) = Len(registry)
  /\ \A t \in TestIds : store.ls[t] # NONE

\* ------------------------------------------------------------ C30

\* For every test, localStorage and the cookie map hold the same: no entry in
\* either, or the same variant id in both.
Mirrored(st) == \A t \in TestIds : st.ls[t] = ParseCookie(st.cookie)[t]

\* C30 (mirror consistency): from empty stores, after any sequence of
\* getVariant, forceVariant, trackConversion, trackInteraction and
\* getABTestDebugInfo calls, with both stores working and nothing but the
\* engine touching them, localStorage and the cookie map agree on every test.
C30_MirrorConsistency == Mirrored(store)

\* What holds: every call that stores no id holding a ';' keeps stores that
\* agree in agreement.
C30_MirrorKeptUnlessSemicolon ==
  [][(/\ Mirrored(store)
      /\ \A i \in 1..Len(last'.writes) : last'.writes[i][2] \notin SemicolonIds)
       => Mirrored(store')]_vars

\* The id with the ';' has been replaced by a new assignment, and the stores
\* still disagree: localStorage holds the mission test's variant, the cookie
\* map does not.
C30_MirrorBroken ==
  /\ \A t \in TestIds : store.ls[t] \notin SemicolonIds
  /\ store.cookie.kind = "json"
  /\ store.ls[MissionId] # NONE
  /\ ParseCookie(store.cookie)[MissionId] = NONE

====
